---- MODULE Spec2Model ----
(***************************************************************************)
(* A model of the AI Assistant Studio server: the search fan-out of        *)
(* SearchService, the project generator with its generate and download     *)
(* routes, the in-memory store of conversations, messages and search       *)
(* engines, and the status codes of the route handlers.                    *)
(***************************************************************************)
EXTENDS Integers, Sequences, FiniteSets, TLC

VARIABLES
    engines,        \* search: the `engines` argument of SearchService.search
    env,            \* search: the names of the environment variables that are set
    maxResults,     \* search: the `maxResults` argument
    promises,       \* search: searchPromises, one per engine
    response,       \* search: what search() returned, once it has
    sessionStore,   \* routes: sessionStore, session id -> user
    users,          \* storage: the users table
    projectTemplates, \* storage: the project_templates table, id -> template
    projects,       \* storage: the projects table, id -> project
    dirs,           \* disk: the directories under the working directory
    diskFiles,      \* disk: the regular files, path -> content
    zips,           \* disk: the ids p with generated-projects/p.zip
    gen,            \* generator: the generation in flight
    conversations,  \* storage: MemStorage.conversations, id -> conversation
    messages,       \* storage: MemStorage.messages, id -> message
    searchEngines,  \* storage: MemStorage.searchEngines, id -> search engine
    upload,         \* files: the lines of the uploaded file, as blocks of lines
    analysis,       \* files: the FileAnalysis of the file, once analyzeFile ran
    userPreferences, \* storage: MemStorage.userPreferences, id -> preferences
    ret,            \* storage: what the latest call of the storage returned
    llmConfigurations, \* storage: MemStorage.llmConfigurations, id -> configuration
    pg,             \* storage: the tables PostgreSQLStorage reads and writes
    pgRet,          \* storage: what the latest call of PostgreSQLStorage returned
    logins,         \* routes: the demo-login requests in flight, request -> position
    backend,        \* storage: the implementation the export chose, "mem" or "pg"
    webFetch,       \* search: the latest POST /api/search/fetch-content, with the fetch it made
    chat,           \* storage: the clock, and the conversations and messages with their
                    \* timestamps, each map in its insertion order
    plans,          \* storage: the project plan versions, and the createProjectPlanVersion
                    \* calls in flight
    llm,            \* llm: the latest LLMService.sendMessage call and the body it sent
    resp            \* routes: the response the latest step sent, if it sent one

searchVars == <<engines, env, maxResults, promises, response>>

genVars == <<sessionStore, users, projectTemplates, projects, dirs, diskFiles, zips, gen>>

storeVars == <<conversations, messages, searchEngines>>

fileVars == <<upload, analysis>>

\* The state of the services the search, generator and store steps leave alone.
prefVars == <<userPreferences, ret>>

pgVars == <<pg, pgRet>>

loginVars == <<logins, backend>>

\* The services no action of the file, preference and storage sections writes.
restVars == <<loginVars, webFetch, chat, plans, llm>>

otherVars == <<fileVars, prefVars, llmConfigurations, pgVars, restVars>>

vars == <<searchVars, genVars, storeVars, otherVars, resp>>

(***************************************************************************)
(* Bounds                                                                  *)
(***************************************************************************)
MaxEngines == 2
MaxItems == 1
MaxResultsArg == 2

Min(a, b) == IF a < b THEN a ELSE b
Max(a, b) == IF a > b THEN a ELSE b

SeqsUpTo(S, n) == UNION {[1..k -> S] : k \in 0..n}

(***************************************************************************)
(* Responses and the state of an idle server                               *)
(***************************************************************************)
NoBody == [projectName |-> <<>>, description |-> <<>>]

\* The response of the latest step: its route and request, the status
\* (200 when the handler set none), whether the JSON body has an `error`
\* field, whether a zip archive was sent, the index of the template file
\* the generation failed at, and the API keys the body carries.
Response(route, h, id, body, status, error, sent) ==
    [route |-> route, h |-> h, id |-> id, body |-> body, status |-> status,
     error |-> error, sent |-> sent, at |-> 0, keys |-> {}, ids |-> {}]

NoResp == Response("none", "-", "-", NoBody, 0, FALSE, FALSE)

NoGen ==
    [active |-> FALSE, pid |-> "-", tid |-> "-", name |-> <<>>, i |-> 0, phase |-> "-",
     h |-> "-", body |-> NoBody]

Put(f, k, v) == [x \in DOMAIN f \cup {k} |-> IF x = k THEN v ELSE f[x]]

EmptyFn == [x \in {} |-> x]

\* The generator and its stores before any request.
GenIdle ==
    /\ sessionStore = EmptyFn
    /\ users = {}
    /\ projectTemplates = EmptyFn
    /\ projects = EmptyFn
    /\ dirs = {}
    /\ diskFiles = EmptyFn
    /\ zips = {}
    /\ gen = NoGen

Null == "<null>"
Absent == "<absent>"

\* MemStorage.initializeDefaultSearchEngines
DefaultSearchEngines ==
    [id \in {"e1", "e2", "e3"} |->
        [userId |-> Null,
         name |-> CASE id = "e1" -> "Google" [] id = "e2" -> "Bing" [] OTHER -> "DuckDuckGo",
         enabled |-> id # "e3",
         apiKey |-> Null]]

NoAnalysis == [done |-> FALSE]

\* No file was uploaded.
FileIdle ==
    /\ upload = <<>>
    /\ analysis = NoAnalysis

\* A call of the storage returns a record, a list of records or undefined:
\* `value` holds the records.
Returned(op, userId, value) == [op |-> op, userId |-> userId, value |-> value]

NoRet == Returned("none", "-", {})

\* No preferences are stored, as the constructor of MemStorage leaves them.
PrefsIdle ==
    /\ userPreferences = EmptyFn
    /\ ret = NoRet

\* MemStorage.initializeDefaultLLMConfiguration
DefaultLLMConfigurations ==
    [id \in {"l1"} |->
        [id |-> id, userId |-> Null, name |-> "Ollama Local",
         endpoint |-> "http://localhost:11434", model |-> "llama2-7b-chat",
         temperature |-> 70, maxTokens |-> 2048, isDefault |-> TRUE]]

LlmIdle == llmConfigurations = DefaultLLMConfigurations

\* PostgreSQLStorage.initializeDefaults, on empty tables.
PgInit ==
    [searchEngines |-> DefaultSearchEngines,
     llmConfigurations |-> DefaultLLMConfigurations,
     userPreferences |-> EmptyFn]

PgIdle ==
    /\ pg = PgInit
    /\ pgRet = NoRet

LoginRequests == {"q1", "q2", "q3"}

\* A demo-login request that has not reached the handler.
NoLogin == [pc |-> "start", user |-> {}, sid |-> "-", status |-> 0]

LoginIdle ==
    /\ logins = [r \in LoginRequests |-> NoLogin]
    /\ backend = "mem"

NoFetchUrl == [protocol |-> "-", host |-> [kind |-> "name", name |-> "-", octets |-> <<>>]]

\* No fetch-content request answered yet.
NoFetch == [url |-> NoFetchUrl, given |-> FALSE, called |-> FALSE, status |-> 0]

\* The clock at its start, and no conversation or message stored.
NoChat == [now |-> 0, conversations |-> <<>>, messages |-> <<>>]

PlanCalls == {"a", "b", "c"}

\* A createProjectPlanVersion call not yet made.
NoPlanCall == [pc |-> "idle", projectId |-> "-", version |-> 0]

\* No plan version stored and no call in flight.
NoPlans == [stored |-> EmptyFn, calls |-> [k \in PlanCalls |-> NoPlanCall]]

\* LLMService.sendMessage not yet called.
NoLlm == [called |-> FALSE]

\* What the services of restVars are at rest.
RestIdle ==
    /\ LoginIdle
    /\ webFetch = NoFetch
    /\ chat = NoChat
    /\ plans = NoPlans
    /\ llm = NoLlm

\* The services outside the search, the generator and the store, at rest.
ServicesIdle ==
    /\ FileIdle
    /\ PrefsIdle
    /\ LlmIdle
    /\ PgIdle
    /\ RestIdle

\* The store as the constructor of MemStorage leaves it.
StoreInit ==
    /\ conversations = EmptyFn
    /\ messages = EmptyFn
    /\ searchEngines = DefaultSearchEngines

(***************************************************************************)
(* SearchService (search-service.ts)                                       *)
(***************************************************************************)

\* URLs of search results.  "A" differs from "a" in letter case only.
Urls == {"a", "A", "b"}
NoUrl == "<none>"
NullName == "<null>"

\* String.prototype.toLowerCase on the strings of the model.
ToLowerCase(s) ==
    CASE s = "A" -> "a"
      [] s = "Google" -> "google"
      [] s = "Bing" -> "bing"
      [] s = "DuckDuckGo" -> "duckduckgo"
      [] s = "Yahoo" -> "yahoo"
      [] OTHER -> s

\* Rows of the search_engines table as search() reads them.
EngineRows ==
    [name : {"Google"}, apiKey : {"null", "k"}]
        \cup [name : {"Bing", "DuckDuckGo", "Yahoo", NullName}, apiKey : {"null"}]

EnvChoices ==
    { {},
      {"GOOGLE_API_KEY", "BING_API_KEY"},
      {"GOOGLE_API_KEY", "GOOGLE_SEARCH_ENGINE_ID", "BING_API_KEY"} }

\* What the network gives one engine's request: fetch throws, the response is
\* not ok, or it is ok and carries items (and, for DuckDuckGo, an abstract).
NetOutcomes ==
    [kind : {"throw", "notok"}, items : {<<>>}, abstract : {NoUrl}]
        \cup [kind : {"ok"}, items : SeqsUpTo(Urls, MaxItems), abstract : {NoUrl}]

DuckOutcomes ==
    [kind : {"throw", "notok"}, items : {<<>>}, abstract : {NoUrl}]
        \cup [kind : {"ok"}, items : SeqsUpTo({"a", "b", NoUrl}, MaxItems),
              abstract : {NoUrl, "#", "A"}]

\* Array.prototype.slice(0, k).
SliceTo(s, k) ==
    IF k < 0 THEN SubSeq(s, 1, Max(Len(s) + k, 0))
             ELSE SubSeq(s, 1, Min(k, Len(s)))

\* items.map(item => ({url, source})); pos is the place in the engine's answer.
MapItems(items, source) ==
    [j \in 1..Len(items) |-> [url |-> items[j], source |-> source, pos |-> j]]

RECURSIVE FilterTopics(_)
FilterTopics(topics) ==
    IF topics = <<>> THEN <<>>
    ELSE IF Head(topics) # NoUrl
         THEN <<Head(topics)>> \o FilterTopics(Tail(topics))
         ELSE FilterTopics(Tail(topics))

searchGoogle(max, apiKey, net) ==
    LET keySet == apiKey # "null" \/ "GOOGLE_API_KEY" \in env
        cxSet == "GOOGLE_SEARCH_ENGINE_ID" \in env
    IN  IF ~keySet \/ ~cxSet THEN <<>>
        ELSE IF net.kind # "ok" THEN <<>>
        ELSE MapItems(net.items, "Google")

searchBing(max, apiKey, net) ==
    LET keySet == apiKey # "null" \/ "BING_API_KEY" \in env
    IN  IF ~keySet THEN <<>>
        ELSE IF net.kind # "ok" THEN <<>>
        ELSE MapItems(net.items, "Bing")

searchDuckDuckGo(max, net) ==
    IF net.kind # "ok" THEN <<>>
    ELSE LET abs == IF net.abstract # NoUrl THEN <<net.abstract>> ELSE <<>>
             topics == FilterTopics(SliceTo(net.items, max - 1))
         IN  SliceTo(MapItems(abs \o topics, "DuckDuckGo"), max)

\* The promise searchEngine(engine, query, maxResults) settles to.
searchEngine(engine, max, net) ==
    IF engine.name = NullName
    THEN [status |-> "rejected", value |-> <<>>]
    ELSE [status |-> "fulfilled",
          value |-> CASE ToLowerCase(engine.name) = "google" ->
                             searchGoogle(max, engine.apiKey, net)
                      [] ToLowerCase(engine.name) = "bing" ->
                             searchBing(max, engine.apiKey, net)
                      [] ToLowerCase(engine.name) = "duckduckgo" ->
                             searchDuckDuckGo(max, net)
                      [] OTHER -> <<>>]

Pending == [status |-> "pending", value |-> <<>>, net |-> "none"]

\* As deduplicateFrom, but comparing the URLs as written.
RECURSIVE deduplicateFrom_exact(_, _)
deduplicateFrom_exact(results, seen) ==
    IF results = <<>> THEN <<>>
    ELSE LET key == Head(results).url
         IN  IF key \in seen
             THEN deduplicateFrom_exact(Tail(results), seen)
             ELSE <<Head(results)>>
                      \o deduplicateFrom_exact(Tail(results), seen \cup {key})

RECURSIVE deduplicateFrom(_, _)
deduplicateFrom(results, seen) ==
    IF results = <<>> THEN <<>>
    ELSE LET key == ToLowerCase(Head(results).url)
         IN  IF key \in seen
             THEN deduplicateFrom(Tail(results), seen)
             ELSE <<Head(results)>> \o deduplicateFrom(Tail(results), seen \cup {key})

deduplicateResults(results) == deduplicateFrom(results, {})

\* results.forEach((result, index) => ...): the engines that count.
Counts(p) == p.status = "fulfilled" /\ Len(p.value) > 0

RECURSIVE allResultsFrom(_, _)
allResultsFrom(ps, i) ==
    IF i > Len(ps) THEN <<>>
    ELSE (IF Counts(ps[i])
          THEN [j \in 1..Len(ps[i].value) |->
                    [url |-> ps[i].value[j].url, source |-> ps[i].value[j].source,
                     pos |-> j, idx |-> i]]
          ELSE <<>>) \o allResultsFrom(ps, i + 1)

RECURSIVE sourcesFrom(_, _, _)
sourcesFrom(engs, ps, i) ==
    IF i > Len(ps) THEN <<>>
    ELSE (IF Counts(ps[i]) THEN <<engs[i].name>> ELSE <<>>) \o sourcesFrom(engs, ps, i + 1)

\* As search, but awaiting with Promise.all: one rejection loses every result.
search_all(engs, ps, max) ==
    IF \E i \in 1..Len(ps) : ps[i].status = "rejected"
    THEN [returned |-> TRUE, results |-> <<>>, totalResults |-> 0, sources |-> <<>>,
          uniqueResults |-> <<>>]
    ELSE LET uniqueResults == deduplicateResults(allResultsFrom(ps, 1))
         IN  [returned |-> TRUE,
              results |-> SliceTo(uniqueResults, max),
              totalResults |-> Len(uniqueResults),
              sources |-> sourcesFrom(engs, ps, 1),
              uniqueResults |-> uniqueResults]

\* As search, but cutting one entry too late and counting after the cut.
search_late(engs, ps, max) ==
    LET uniqueResults == deduplicateResults(allResultsFrom(ps, 1))
    IN  [returned |-> TRUE,
         results |-> SliceTo(uniqueResults, max + 1),
         totalResults |-> Len(SliceTo(uniqueResults, max + 1)),
         sources |-> sourcesFrom(engs, ps, 1),
         uniqueResults |-> uniqueResults]

search(engs, ps, max) ==
    LET uniqueResults == deduplicateResults(allResultsFrom(ps, 1))
    IN  [returned |-> TRUE,
         results |-> SliceTo(uniqueResults, max),
         totalResults |-> Len(uniqueResults),
         sources |-> sourcesFrom(engs, ps, 1),
         uniqueResults |-> uniqueResults]

NoResponse ==
    [returned |-> FALSE, results |-> <<>>, totalResults |-> 0, sources |-> <<>>,
     uniqueResults |-> <<>>]

InitSearch ==
    /\ engines \in SeqsUpTo(EngineRows, MaxEngines)
    /\ env \in EnvChoices
    /\ maxResults \in -1..MaxResultsArg
    /\ promises = [i \in 1..Len(engines) |-> Pending]
    /\ response = NoResponse
    /\ GenIdle
    /\ StoreInit
    /\ ServicesIdle
    /\ resp = NoResp

\* One engine's promise settles; the order among the engines is free.
SettleEngine(i) ==
    /\ ~response.returned
    /\ promises[i].status = "pending"
    /\ \E net \in (IF engines[i].name = "DuckDuckGo" THEN DuckOutcomes ELSE NetOutcomes) :
          LET p == searchEngine(engines[i], maxResults, net)
          IN  promises' = [promises EXCEPT
                  ![i] = [status |-> p.status, value |-> p.value, net |-> net.kind]]
    /\ UNCHANGED <<engines, env, maxResults, response, genVars, storeVars, otherVars, resp>>

\* await Promise.allSettled(searchPromises) resumes and search() returns.
SearchReturn ==
    /\ ~response.returned
    /\ \A i \in 1..Len(promises) : promises[i].status # "pending"
    /\ response' = search(engines, promises, maxResults)
    /\ UNCHANGED <<engines, env, maxResults, promises, genVars, storeVars, otherVars, resp>>

NextSearch ==
    \/ \E i \in 1..Len(engines) : SettleEngine(i)
    \/ SearchReturn

SpecSearch == InitSearch /\ [][NextSearch]_vars

(***************************************************************************)
(* Claims about SearchService.search                                       *)
(***************************************************************************)
AllSettled == \A i \in 1..Len(promises) : promises[i].status # "pending"

\* The engine's request failed, its promise rejected, or it has no key.
Unconfigured(i) ==
    \/ /\ engines[i].name = "Google"
       /\ \/ engines[i].apiKey = "null" /\ "GOOGLE_API_KEY" \notin env
          \/ "GOOGLE_SEARCH_ENGINE_ID" \notin env
    \/ /\ engines[i].name = "Bing"
       /\ engines[i].apiKey = "null" /\ "BING_API_KEY" \notin env

Failed(i) ==
    \/ promises[i].status = "rejected"
    \/ promises[i].net \in {"throw", "notok"}
    \/ Unconfigured(i)

Good(i) == promises[i].status = "fulfilled" /\ promises[i].value # <<>>

GoodIndices == {i \in 1..Len(promises) : Good(i)}

Rank(i) == Cardinality({j \in GoodIndices : j <= i})

\* C1: search returns whatever its engines' promises settled to, and in
\* its response an engine that failed, rejected or is not configured
\* contributes no result and no entry of `sources`; every engine
\* that returned a result is listed in `sources`, in engine order, and each
\* of its URLs is in the merged list, which totalResults counts.
C1_FailureIsolation ==
    /\ response.returned =>
          /\ \A i \in 1..Len(engines) :
                Failed(i) =>
                    /\ promises[i].value = <<>>
                    /\ \A k \in 1..Len(response.results) : response.results[k].idx # i
          /\ Len(response.sources) = Cardinality(GoodIndices)
          /\ \A i \in GoodIndices :
                /\ response.sources[Rank(i)] = engines[i].name
                /\ \A j \in 1..Len(promises[i].value) :
                      \E k \in 1..Len(response.uniqueResults) :
                          ToLowerCase(response.uniqueResults[k].url)
                              = ToLowerCase(promises[i].value[j].url)
          /\ response.totalResults
                = Cardinality({ToLowerCase(promises[i].value[j].url) :
                      <<i, j>> \in {<<i2, j2>> \in GoodIndices \X (1..MaxItems + 1) :
                                        j2 <= Len(promises[i2].value)}})

\* A failed engine next to one that answered, after search returned.
C1_Witness ==
    /\ response.returned
    /\ \E i, j \in 1..Len(engines) : Failed(i) /\ Good(j) /\ response.results # <<>>
    /\ \E i \in 1..Len(engines) : promises[i].status = "rejected"

ResultKey(k) == ToLowerCase(response.results[k].url)

\* C6: no two results have URLs equal ignoring letter case, and the result
\* kept for a URL is the first one in engine order, then in the order of
\* that engine's answer.
C6_DedupKeepsFirst ==
    response.returned =>
        /\ \A k, l \in 1..Len(response.results) : k # l => ResultKey(k) # ResultKey(l)
        /\ \A k \in 1..Len(response.results) :
              LET r == response.results[k]
              IN  /\ r.idx \in GoodIndices
                  /\ r.pos \in 1..Len(promises[r.idx].value)
                  /\ promises[r.idx].value[r.pos].url = r.url
                  /\ \A i \in GoodIndices : \A j \in 1..Len(promises[i].value) :
                        ToLowerCase(promises[i].value[j].url) = ResultKey(k)
                            => (i > r.idx \/ (i = r.idx /\ j >= r.pos))

\* Two engines answered the same URL in different letter case.
C6_Witness ==
    /\ response.returned
    /\ \E i, j \in GoodIndices :
          /\ i < j
          /\ promises[i].value[1].url # promises[j].value[1].url
          /\ ToLowerCase(promises[i].value[1].url) = ToLowerCase(promises[j].value[1].url)
    /\ Len(response.results) > 0

IsPrefix(s, t) == Len(s) <= Len(t) /\ s = SubSeq(t, 1, Len(s))

\* C7: with maxResults >= 0 the response holds at most maxResults results,
\* they are a prefix of the deduplicated merged list, and totalResults is
\* the length of that list before the cut.
C7_TruncationAndTotal ==
    (response.returned /\ maxResults >= 0) =>
        /\ Len(response.results) <= maxResults
        /\ IsPrefix(response.results, response.uniqueResults)
        /\ response.totalResults = Len(response.uniqueResults)
        /\ response.totalResults >= Len(response.results)
        /\ Len(response.results) = Min(maxResults, response.totalResults)

\* The cut dropped a result: more unique results than maxResults.
C7_Witness ==
    /\ response.returned
    /\ maxResults >= 1
    /\ response.totalResults > maxResults
    /\ Len(response.results) = maxResults

(***************************************************************************)
(* Strings of the generator: a string is a sequence of tokens              *)
(***************************************************************************)
TokProjectName == "{{projectName}}"
TokPROJECT_NAME == "{{PROJECT_NAME}}"

\* The number of characters of a token; "x100" and "x500" stand for
\* that many letters x.
TokLen(t) ==
    CASE t = "x100" -> 100
      [] t = "x500" -> 500
      [] t = TokProjectName -> 15
      [] t = TokPROJECT_NAME -> 16
      [] t = "app" -> 3
      [] t = "$&" -> 2
      [] OTHER -> 1

RECURSIVE StrLen(_)
StrLen(str) == IF str = <<>> THEN 0 ELSE TokLen(Head(str)) + StrLen(Tail(str))

Missing == <<"<undefined>">>

\* String.prototype.trim: white space leaves both ends.
RECURSIVE TrimStart(_)
TrimStart(str) ==
    IF str # <<>> /\ Head(str) = " " THEN TrimStart(Tail(str)) ELSE str

RECURSIVE TrimEnd(_)
TrimEnd(str) ==
    IF str # <<>> /\ str[Len(str)] = " "
    THEN TrimEnd(SubSeq(str, 1, Len(str) - 1)) ELSE str

Trim(str) == TrimEnd(TrimStart(str))

\* GetSubstitution of String.prototype.replace with a replacement string:
\* $& is the match, $$ a dollar sign; every other token stands for itself.
RECURSIVE GetSubstitution(_, _)
GetSubstitution(replacement, matched) ==
    IF replacement = <<>> THEN <<>>
    ELSE (CASE Head(replacement) = "$&" -> <<matched>>
            [] Head(replacement) = "$$" -> <<"$">>
            [] OTHER -> <<Head(replacement)>>)
         \o GetSubstitution(Tail(replacement), matched)

\* content.replace(/pattern/g, replacement); the result is not scanned again.
RECURSIVE ReplaceAll(_, _, _)
ReplaceAll(content, pattern, replacement) ==
    IF content = <<>> THEN <<>>
    ELSE (IF Head(content) = pattern
          THEN GetSubstitution(replacement, pattern)
          ELSE <<Head(content)>>)
         \o ReplaceAll(Tail(content), pattern, replacement)

\* projectName.toLowerCase().replace(/\s+/g, '-')
RECURSIVE PackageName(_)
PackageName(name) ==
    IF name = <<>> THEN <<>>
    ELSE (CASE Head(name) = " " -> <<"-">>
            [] Head(name) = TokPROJECT_NAME -> <<"{{project_name}}">>
            [] Head(name) = "x100" -> <<"x100">>
            [] OTHER -> <<Head(name)>>)
         \o PackageName(Tail(name))

\* JSON.parse succeeds on the contents that are a JSON object.
IsJson(content) ==
    Len(content) >= 2 /\ content[1] = "{name:" /\ content[Len(content)] = "}"

(***************************************************************************)
(* Paths: absolute or not, and the segments between the separators         *)
(***************************************************************************)
Path(abs, segs) == [abs |-> abs, segs |-> segs]

RECURSIVE NormSegs(_, _, _)
NormSegs(segs, abs, acc) ==
    IF segs = <<>> THEN acc
    ELSE LET h == Head(segs)
         IN  IF h = "." THEN NormSegs(Tail(segs), abs, acc)
             ELSE IF h = ".."
                  THEN IF acc # <<>> /\ acc[Len(acc)] # ".."
                       THEN NormSegs(Tail(segs), abs, SubSeq(acc, 1, Len(acc) - 1))
                       ELSE IF abs THEN NormSegs(Tail(segs), abs, acc)
                            ELSE NormSegs(Tail(segs), abs, Append(acc, ".."))
                  ELSE NormSegs(Tail(segs), abs, Append(acc, h))

\* path.normalize
Normalize(p) == Path(p.abs, NormSegs(p.segs, p.abs, <<>>))

\* String.prototype.includes('..') on a path: some segment holds two dots.
IncludesDotDot(p) == \E k \in 1..Len(p.segs) : p.segs[k] \in {"..", "x..y"}

\* path.join(projectPath, normalized), from the working directory.
Join(base, p) == NormSegs(base \o p.segs, FALSE, <<>>)

RECURSIVE CommonPrefix(_, _)
CommonPrefix(a, b) ==
    IF a # <<>> /\ b # <<>> /\ Head(a) = Head(b)
    THEN 1 + CommonPrefix(Tail(a), Tail(b)) ELSE 0

\* path.relative(from, to)
Relative(from, to) ==
    LET k == CommonPrefix(from, to)
    IN  [j \in 1..(Len(from) - k) |-> ".."] \o SubSeq(to, k + 1, Len(to))

Dirname(segs) == IF segs = <<>> THEN <<>> ELSE SubSeq(segs, 1, Len(segs) - 1)

Prefixes(segs) == {SubSeq(segs, 1, k) : k \in 0..Len(segs)}

baseOutputPath == <<"generated-projects">>

Ok(target) == [ok |-> TRUE, target |-> target, kind |-> "-", path |-> <<>>]
Err(kind, path) == [ok |-> FALSE, target |-> <<>>, kind |-> kind, path |-> path]

\* sanitizeFilePath: the target path, or the error thrown.
sanitizeFilePath(filePath, projectPath) ==
    LET normalized == Normalize(filePath)
    IN  IF normalized.abs THEN Err("absolute", filePath.segs)
        ELSE IF IncludesDotDot(normalized) THEN Err("traversal", filePath.segs)
        ELSE LET targetPath == Join(projectPath, normalized)
                 relativePath == Relative(projectPath, targetPath)
             IN  IF relativePath # <<>> /\ relativePath[1] = ".."
                 THEN Err("escapes", filePath.segs)
                 ELSE Ok(targetPath)

\* error.message.includes(what) for the errors of the generator; the
\* message of a path or file-system error quotes the path.
MessageIncludes(err, what) ==
    CASE what = "not found" ->
            err.kind = "template" \/ \E k \in 1..Len(err.path) : err.path[k] = "not found"
      [] what = "Path traversal" -> err.kind = "traversal"
      [] what = "Absolute paths" -> err.kind = "absolute"
      [] what = "Path escapes" -> err.kind = "escapes"
      [] OTHER -> FALSE

\* The catch block of POST /api/project-templates/:id/generate.
ErrorStatus(err) ==
    IF MessageIncludes(err, "not found") THEN 404
    ELSE IF \/ MessageIncludes(err, "Path traversal")
            \/ MessageIncludes(err, "Absolute paths")
            \/ MessageIncludes(err, "Path escapes")
         THEN 400
         ELSE 500

(***************************************************************************)
(* The generate and download routes, and the generator                     *)
(***************************************************************************)
MaxFiles == 2
NameMaxLen == 100
DescMaxLen == 500

SessionIds == {"s1"}
GenIds == {"p1"}
OtherIds == {"p2"}
TemplateIds == {"t1"}
DemoUser == [id |-> "u1", username |-> "demo-user"]

\* Template files: every path with a plain content, and the contents with
\* placeholders under a plain path and under package.json.
PathInputs ==
    { Path(FALSE, <<"a">>), Path(FALSE, <<"a", "b">>), Path(FALSE, <<"..", "a">>),
      Path(FALSE, <<"a", "..", "b">>), Path(TRUE, <<"a">>), Path(FALSE, <<"x..y">>),
      Path(FALSE, <<"..", "not found">>), Path(FALSE, <<>>) }

FileInputs ==
    [path : PathInputs, content : {<<"txt">>}]
        \cup [path : {Path(FALSE, <<"a">>)},
              content : {<<TokProjectName, "txt">>, <<"txt", TokPROJECT_NAME>>}]
        \cup [path : {Path(FALSE, <<"package.json">>)},
              content : {<<"{name:", TokProjectName, "}">>}]

TemplateInputs == [name : {<<"tpl">>}, files : SeqsUpTo(FileInputs, MaxFiles)]

NameInputs ==
    { <<"app">>, <<"$&">>, <<TokPROJECT_NAME>>, <<" ">>, <<"x100">>,
      <<"x100", "a">>, <<>>, Missing }

DescInputs == { <<"d">>, <<"x500">>, <<"x500", "a">>, Missing }

BodyInputs ==
    [projectName : NameInputs, description : {<<"d">>}]
        \cup [projectName : {<<"app">>}, description : DescInputs]

\* The bodies of BodyInputs the schema accepts, one per project name.
NamedBodies ==
    [projectName : {<<"app">>, <<"$&">>, <<TokPROJECT_NAME>>, <<" ">>, <<"x100">>},
     description : {<<"d">>}]

PlainTemplate ==
    [name |-> <<"tpl">>,
     files |-> <<[path |-> Path(FALSE, <<"a">>), content |-> <<TokProjectName, "txt">>]>>]

\* As generateProjectSchema, without the upper limits.
generateProjectSchema_noMax(body) ==
    /\ body.projectName # Missing
    /\ StrLen(body.projectName) >= 1

\* generateProjectSchema.safeParse(req.body).success
generateProjectSchema(body) ==
    /\ body.projectName # Missing
    /\ StrLen(body.projectName) >= 1
    /\ StrLen(body.projectName) <= NameMaxLen
    /\ body.description # Missing => StrLen(body.description) <= DescMaxLen

\* As requireAuth, asking for the header only.
requireAuth_headerOnly(h) == h # "absent"

\* requireAuth lets the request through.
requireAuth(h) == h \in DOMAIN sessionStore

\* getUserId(req): req.user?.id || 'demo-user'
getUserId(h) == IF h \in DOMAIN sessionStore THEN sessionStore[h].id ELSE "demo-user"

SearchIdle ==
    /\ engines = <<>>
    /\ env = {}
    /\ maxResults = 0
    /\ promises = <<>>
    /\ response = NoResponse

\* The server with one stored template, drawn from TemplateInputs.
InitGen ==
    /\ SearchIdle
    /\ sessionStore = EmptyFn
    /\ users = {}
    /\ projectTemplates \in [TemplateIds -> TemplateInputs]
    /\ projects = EmptyFn
    /\ dirs = {}
    /\ diskFiles = EmptyFn
    /\ zips = {}
    /\ gen = NoGen
    /\ StoreInit
    /\ ServicesIdle
    /\ resp = NoResp

\* POST /api/auth/demo-login
DemoLogin ==
    \E sid \in SessionIds \ DOMAIN sessionStore :
        LET found == {u \in users : u.username = "demo-user"}
            user == IF found # {} THEN CHOOSE u \in found : TRUE ELSE DemoUser
        IN  /\ users' = users \cup {user}
            /\ sessionStore' = Put(sessionStore, sid, user)
            /\ resp' = Response("demo-login", "-", sid, NoBody, 200, FALSE, FALSE)
            /\ UNCHANGED <<searchVars, otherVars, storeVars, projectTemplates, projects, dirs, diskFiles,
                           zips, gen>>

\* POST /api/projects
CreateProject(userId, valid) ==
    IF ~valid
    THEN /\ resp' = Response("create-project", "-", "-", NoBody, 500, TRUE, FALSE)
         /\ UNCHANGED <<searchVars, otherVars, storeVars, genVars>>
    ELSE \E id \in OtherIds \ DOMAIN projects :
            /\ projects' = Put(projects, id, [userId |-> userId, name |-> <<"other">>])
            /\ resp' = Response("create-project", "-", id, NoBody, 200, FALSE, FALSE)
            /\ UNCHANGED <<searchVars, otherVars, storeVars, sessionStore, users, projectTemplates, dirs,
                           diskFiles, zips, gen>>

\* POST /api/project-templates/:id/generate, up to the project record and
\* the project directory.
GenerateRequest(h, body, tid) ==
    LET answer(status) ==
            /\ resp' = Response("generate", h, tid, body, status, TRUE, FALSE)
            /\ UNCHANGED <<searchVars, otherVars, storeVars, genVars>>
    IN  IF ~requireAuth(h) THEN answer(401)
        ELSE IF ~generateProjectSchema(body) THEN answer(400)
        ELSE IF tid \notin DOMAIN projectTemplates THEN answer(404)
        ELSE /\ ~gen.active
             /\ \E pid \in GenIds \ DOMAIN projects :
                  LET projectName == Trim(body.projectName)
                      template == projectTemplates[tid]
                  IN  /\ projects' = Put(projects, pid,
                            [userId |-> getUserId(h),
                             name |-> IF projectName # <<>> THEN projectName
                                      ELSE template.name])
                      /\ dirs' = dirs \cup (Prefixes(baseOutputPath \o <<pid>>) \ {<<>>})
                      /\ gen' = [active |-> TRUE, pid |-> pid, tid |-> tid,
                                 name |-> projectName, i |-> 1, phase |-> "files",
                                 h |-> h, body |-> body]
             /\ resp' = NoResp
             /\ UNCHANGED <<searchVars, otherVars, storeVars, sessionStore, users, projectTemplates,
                            diskFiles, zips>>

\* The content createProjectFiles writes for one template file.
FileContent(file, projectName) ==
    LET c1 == ReplaceAll(file.content, TokProjectName, projectName)
        c2 == ReplaceAll(c1, TokPROJECT_NAME, projectName)
    IN  IF file.path = Path(FALSE, <<"package.json">>) /\ IsJson(c2)
        THEN <<"{name:">> \o PackageName(projectName) \o <<"}">>
        ELSE c2

\* The generation throws: the catch block of the route answers.
GenFail(err) ==
    /\ resp' = [Response("generate", gen.h, gen.tid, gen.body, ErrorStatus(err),
                         TRUE, FALSE) EXCEPT !.at = gen.i]
    /\ gen' = NoGen

\* createProjectFiles: one turn of the loop over the template's files.
GenFile ==
    /\ gen.active /\ gen.phase = "files"
    /\ gen.i <= Len(projectTemplates[gen.tid].files)
    /\ LET file == projectTemplates[gen.tid].files[gen.i]
           projectPath == baseOutputPath \o <<gen.pid>>
           san == sanitizeFilePath(file.path, projectPath)
           fileDir == Dirname(san.target)
           made == dirs \cup (Prefixes(fileDir) \ {<<>>})
       IN  IF ~san.ok
           THEN GenFail(san) /\ UNCHANGED <<dirs, diskFiles>>
           ELSE IF Prefixes(fileDir) \cap DOMAIN diskFiles # {}
           THEN GenFail(Err("io", fileDir)) /\ UNCHANGED <<dirs, diskFiles>>
           ELSE IF san.target \in made
           THEN GenFail(Err("io", san.target)) /\ dirs' = made /\ UNCHANGED diskFiles
           ELSE /\ dirs' = made
                /\ diskFiles' = Put(diskFiles, san.target, FileContent(file, gen.name))
                /\ gen' = [gen EXCEPT !.i = gen.i + 1]
                /\ resp' = NoResp
    /\ UNCHANGED <<searchVars, otherVars, storeVars, sessionStore, users, projectTemplates, projects, zips>>

\* createProjectFiles: README.md, after the loop.
GenReadme ==
    /\ gen.active /\ gen.phase = "files"
    /\ gen.i > Len(projectTemplates[gen.tid].files)
    /\ LET target == baseOutputPath \o <<gen.pid, "README.md">>
       IN  IF target \in dirs
           THEN GenFail(Err("io", target)) /\ UNCHANGED diskFiles
           ELSE /\ diskFiles' = Put(diskFiles, target, <<"# ">> \o gen.name \o <<"readme">>)
                /\ gen' = [gen EXCEPT !.phase = "zip"]
                /\ resp' = NoResp
    /\ UNCHANGED <<searchVars, otherVars, storeVars, sessionStore, users, projectTemplates, projects, dirs,
                   zips>>

\* createZipArchive: the archive is written and its stream closes.
GenZip ==
    /\ gen.active /\ gen.phase = "zip"
    /\ zips' = zips \cup {gen.pid}
    /\ gen' = [gen EXCEPT !.phase = "respond"]
    /\ resp' = NoResp
    /\ UNCHANGED <<searchVars, otherVars, storeVars, sessionStore, users, projectTemplates, projects, dirs,
                   diskFiles>>

\* The generate route answers with the project and its download URL.
GenRespond ==
    /\ gen.active /\ gen.phase = "respond"
    /\ resp' = Response("generate", gen.h, gen.pid, gen.body, 200, FALSE, FALSE)
    /\ gen' = NoGen
    /\ UNCHANGED <<searchVars, otherVars, storeVars, sessionStore, users, projectTemplates, projects, dirs,
                   diskFiles, zips>>

\* /^[0-9a-f]{8}-...$/i.test(projectId): the ids of the stores are UUIDs.
uuidRegexTest(id) == id \in GenIds \cup OtherIds

\* ProjectGeneratorService.getProjectDownload: the zip path, when it exists.
\* As getProjectDownload, finding no archive.
getProjectDownload_missing(id) == FALSE

getProjectDownload(id) == id \in zips

\* As DownloadStatus, without the check of the owner.
DownloadStatus_noOwner(h, id) ==
    IF ~requireAuth(h) THEN 401
    ELSE IF ~uuidRegexTest(id) THEN 400
    ELSE IF id \notin DOMAIN projects THEN 404
    ELSE IF ~getProjectDownload(id) THEN 404
    ELSE 200

\* The status GET /api/download/project/:id answers with.
DownloadStatus(h, id) ==
    IF ~requireAuth(h) THEN 401
    ELSE IF ~uuidRegexTest(id) THEN 400
    ELSE IF id \notin DOMAIN projects THEN 404
    ELSE IF projects[id].userId # getUserId(h) THEN 403
    ELSE IF ~getProjectDownload(id) THEN 404
    ELSE 200

\* GET /api/download/project/:id
Download(h, id) ==
    LET status == DownloadStatus(h, id)
    IN  /\ resp' = Response("download", h, id, NoBody, status, status # 200, status = 200)
        /\ UNCHANGED <<searchVars, otherVars, storeVars, genVars>>

HeaderInputs == SessionIds \cup {"absent", "s0"}
IdInputs == GenIds \cup OtherIds \cup {"not-a-uuid"}

\* Generation of a project from any template of TemplateInputs, under any
\* accepted name.
NextGen ==
    \/ DemoLogin
    \/ \E h \in SessionIds, body \in NamedBodies, tid \in TemplateIds :
          GenerateRequest(h, body, tid)
    \/ GenFile
    \/ GenReadme
    \/ GenZip
    \/ GenRespond

SpecGen == InitGen /\ [][NextGen]_vars

\* The server with the one template PlainTemplate stored.
InitAccess ==
    /\ SearchIdle
    /\ sessionStore = EmptyFn
    /\ users = {}
    /\ projectTemplates = [t \in TemplateIds |-> PlainTemplate]
    /\ projects = EmptyFn
    /\ dirs = {}
    /\ diskFiles = EmptyFn
    /\ zips = {}
    /\ gen = NoGen
    /\ StoreInit
    /\ ServicesIdle
    /\ resp = NoResp

\* Any request to the generate and download routes, with and without a
\* session, next to logins and projects created by POST /api/projects.
NextAccess ==
    \/ DemoLogin
    \/ \E userId \in {"u1", "u2"}, valid \in BOOLEAN : CreateProject(userId, valid)
    \/ \E h \in HeaderInputs, body \in BodyInputs, tid \in TemplateIds \cup {"t0"} :
          GenerateRequest(h, body, tid)
    \/ GenFile
    \/ GenReadme
    \/ GenZip
    \/ GenRespond
    \/ \E h \in HeaderInputs, id \in IdInputs : Download(h, id)

SpecAccess == InitAccess /\ [][NextAccess]_vars

(***************************************************************************)
(* Claims about the generate and download routes                           *)
(***************************************************************************)
TemplateFiles == projectTemplates["t1"].files

\* The path is absolute or has `..` in it, as the template gives it.
AbsoluteOrDotDot(p) == p.abs \/ \E k \in 1..Len(p.segs) : p.segs[k] \in {"..", "x..y"}

UnderProject(f, pid) ==
    Len(f) > 2 /\ SubSeq(f, 1, 2) = baseOutputPath \o <<pid>>

\* C2: a template file whose path is absolute or contains `..` makes the
\* generation fail with an error the route answers with 400, and no file
\* is ever written outside generated-projects/<projectId>.
C2_TraversalRejected ==
    /\ (resp.route = "generate" /\ resp.status = 200) =>
          \A k \in 1..Len(TemplateFiles) : ~AbsoluteOrDotDot(TemplateFiles[k].path)
    /\ (resp.route = "generate" /\ resp.at > 0
            /\ AbsoluteOrDotDot(TemplateFiles[resp.at].path)) => resp.status = 400
    /\ \A f \in DOMAIN diskFiles : \E pid \in DOMAIN projects : UnderProject(f, pid)

HasToken(content) ==
    \E k \in 1..Len(content) : content[k] \in {TokProjectName, TokPROJECT_NAME}

\* The content with every placeholder replaced by the name as written.
RECURSIVE Substituted(_, _)
Substituted(content, name) ==
    IF content = <<>> THEN <<>>
    ELSE (IF Head(content) \in {TokProjectName, TokPROJECT_NAME}
          THEN name ELSE <<Head(content)>>) \o Substituted(Tail(content), name)

\* C8: after a successful generation under the name N every occurrence of
\* {{projectName}} and {{PROJECT_NAME}} in the template content has been
\* replaced by N, so that no generated template file holds a placeholder
\* (but one that N itself spells out).
C8_PlaceholdersReplaced ==
    (resp.route = "generate" /\ resp.status = 200) =>
        \A k \in 1..Len(TemplateFiles) :
            LET file == TemplateFiles[k]
                N == Trim(resp.body.projectName)
                target == sanitizeFilePath(file.path, baseOutputPath \o <<resp.id>>).target
                last == \A l \in (k + 1)..Len(TemplateFiles) :
                            Normalize(TemplateFiles[l].path) # Normalize(file.path)
            IN  last =>
                  /\ ~HasToken(N) => ~HasToken(diskFiles[target])
                  /\ file.path # Path(FALSE, <<"package.json">>) =>
                        diskFiles[target] = Substituted(file.content, N)

\* The request body fails generateProjectSchema.
BodyFailsSchema(body) ==
    \/ body.projectName = Missing
    \/ StrLen(body.projectName) = 0
    \/ StrLen(body.projectName) > 100
    \/ body.description # Missing /\ StrLen(body.description) > 500

\* C3: an authenticated generate request whose body fails the schema is
\* answered 400 and creates no project record, no file and no zip archive.
C3_InvalidBodyRejected ==
    [][ (resp'.route = "generate" /\ resp'.h \in DOMAIN sessionStore
             /\ BodyFailsSchema(resp'.body))
          => (resp'.status = 400
                /\ UNCHANGED <<projects, dirs, diskFiles, zips, gen>>) ]_vars

\* An authenticated request with a name of 101 characters was answered.
C3_Witness ==
    /\ resp.route = "generate"
    /\ resp.h \in DOMAIN sessionStore
    /\ resp.body.projectName = <<"x100", "a">>
    /\ resp.status = 400

ValidSession(h) == h \in DOMAIN sessionStore
WellFormedId(id) == id # "not-a-uuid"
ProjectExists(id) == id \in DOMAIN projects
OwnedBySession(h, id) == projects[id].userId = sessionStore[h].id
ZipExists(id) == id \in zips

\* C10: the download route sends the archive only to a valid session asking
\* for a well-formed id of an existing project it owns whose zip exists, and
\* answers the first failing check with 401, 400, 404, 403, 404 in this order.
C10_DownloadChecks ==
    resp.route = "download" =>
        LET h == resp.h
            id == resp.id
        IN  /\ resp.sent <=>
                  (ValidSession(h) /\ WellFormedId(id) /\ ProjectExists(id)
                       /\ OwnedBySession(h, id) /\ ZipExists(id))
            /\ resp.sent => resp.status = 200
            /\ ~ValidSession(h) => resp.status = 401
            /\ (ValidSession(h) /\ ~WellFormedId(id)) => resp.status = 400
            /\ (ValidSession(h) /\ WellFormedId(id) /\ ~ProjectExists(id))
                  => resp.status = 404
            /\ (ValidSession(h) /\ WellFormedId(id) /\ ProjectExists(id)
                    /\ ~OwnedBySession(h, id)) => resp.status = 403
            /\ (ValidSession(h) /\ WellFormedId(id) /\ ProjectExists(id)
                    /\ OwnedBySession(h, id) /\ ~ZipExists(id)) => resp.status = 404

\* The archive of a generated project was sent to its owner, while another
\* user's project with no archive is stored.
C10_Witness ==
    /\ resp.route = "download"
    /\ resp.sent
    /\ \E id \in DOMAIN projects : projects[id].userId # sessionStore[resp.h].id

(***************************************************************************)
(* The in-memory store behind the conversation, message and search-engine  *)
(* routes                                                                  *)
(***************************************************************************)
ConversationIds == {"c1", "c2"}
MessageIds == {"m1", "m2"}
ApiKeys == {"k1"}

Restrict(f, S) == [x \in DOMAIN f \cap S |-> f[x]]

\* randomUUID() for a conversation: an id no record of the store holds.
FreshConversationIds ==
    ConversationIds \ (DOMAIN conversations
                          \cup {messages[m].conversationId : m \in DOMAIN messages})

\* POST /api/conversations; insertConversationSchema rejects a body with no
\* title.
PostConversation(valid) ==
    IF ~valid
    THEN /\ resp' = Response("POST /api/conversations", "-", "-", NoBody, 500, TRUE, FALSE)
         /\ UNCHANGED <<searchVars, otherVars, genVars, storeVars>>
    ELSE \E id \in FreshConversationIds :
            /\ conversations' = Put(conversations, id, [userId |-> "demo-user"])
            /\ resp' = Response("POST /api/conversations", "-", id, NoBody, 200, FALSE, FALSE)
            /\ UNCHANGED <<searchVars, otherVars, genVars, messages, searchEngines>>

\* As deleteConversation, with the record left in the map.
deleteConversation_kept(id) == conversations

\* MemStorage.deleteConversation
deleteConversation(id) == Restrict(conversations, DOMAIN conversations \ {id})

\* DELETE /api/conversations/:id
DeleteConversation(id) ==
    LET success == id \in DOMAIN conversations
    IN  /\ conversations' = deleteConversation(id)
        /\ resp' = Response("DELETE /api/conversations/:id", "-", id, NoBody,
                            IF success THEN 200 ELSE 404, ~success, FALSE)
        /\ UNCHANGED <<searchVars, otherVars, genVars, messages, searchEngines>>

\* The bodies of POST /api/messages: conversationId is the id of a stored
\* conversation, of none, or null; role is there or not.
MessageInputs == [conversationId : ConversationIds \cup {Null}, role : {"user", Absent}]

\* insertMessageSchema.parse(req.body) does not throw.
insertMessageSchema(body) == body.role # Absent

\* MemStorage.createMessage: the record it stores.
createMessage(body) == [conversationId |-> body.conversationId]

\* POST /api/messages: createMessage, then updateConversation, which
\* returns undefined for the id of no conversation.
PostMessage(body) ==
    LET fail == /\ resp' = Response("POST /api/messages", "-", body.conversationId,
                                    NoBody, 500, TRUE, FALSE)
                /\ UNCHANGED <<searchVars, otherVars, genVars, storeVars>>
    IN  IF ~insertMessageSchema(body)
        THEN fail
        ELSE \E id \in MessageIds \ DOMAIN messages :
                /\ messages' = Put(messages, id, createMessage(body))
                /\ resp' = Response("POST /api/messages", "-", body.conversationId,
                                    NoBody, 200, FALSE, FALSE)
                /\ UNCHANGED <<searchVars, otherVars, genVars, conversations, searchEngines>>

\* MemStorage.deleteMessage
deleteMessage(id) ==
    /\ messages' = Restrict(messages, DOMAIN messages \ {id})
    /\ resp' = NoResp
    /\ UNCHANGED <<searchVars, otherVars, genVars, conversations, searchEngines>>

\* MemStorage.getSearchEnginesByUserId
getSearchEnginesByUserId(userId) ==
    {e \in DOMAIN searchEngines : searchEngines[e].userId \in {userId, Null}}

\* The API keys in a JSON body that holds the engines as stored.
KeysOf(es) == {searchEngines[e].apiKey : e \in es} \ {Null}

\* GET /api/search-engines: apiKey is undefined in every engine of the body.
GetSearchEngines ==
    /\ resp' = Response("GET /api/search-engines", "-", "-", NoBody, 200, FALSE, FALSE)
    /\ UNCHANGED <<searchVars, otherVars, genVars, storeVars>>

\* The bodies of PUT /api/search-engines/:id.
\* `fields` are the fields the body has.
UpdateInputs ==
    [fields : SUBSET {"apiKey", "enabled"}, apiKey : ApiKeys \cup {Null}, enabled : {FALSE}]

\* { ...engine, ...updates }
Merge(engine, updates) ==
    [engine EXCEPT
        !.apiKey = IF "apiKey" \in updates.fields THEN updates.apiKey ELSE @,
        !.enabled = IF "enabled" \in updates.fields THEN updates.enabled ELSE @]

\* The API keys in the body PUT /api/search-engines/:id answers with.
UpdateBodyKeys(engine) == {engine.apiKey} \ {Null}

\* PUT /api/search-engines/:id
PutSearchEngine(id, updates) ==
    IF id \notin DOMAIN searchEngines
    THEN /\ resp' = Response("PUT /api/search-engines/:id", "-", id, NoBody, 404, TRUE, FALSE)
         /\ UNCHANGED <<searchVars, otherVars, genVars, storeVars>>
    ELSE LET updated == Merge(searchEngines[id], updates)
         IN  /\ searchEngines' = [searchEngines EXCEPT ![id] = updated]
             /\ resp' = [Response("PUT /api/search-engines/:id", "-", id, NoBody, 200,
                                  FALSE, FALSE) EXCEPT !.keys = UpdateBodyKeys(updated)]
             /\ UNCHANGED <<searchVars, otherVars, genVars, conversations, messages>>

\* POST /api/data/export
DataExport(userId) ==
    /\ resp' = IF userId = Absent
               THEN Response("POST /api/data/export", "-", "-", NoBody, 400, TRUE, FALSE)
               ELSE [Response("POST /api/data/export", "-", userId, NoBody, 200, FALSE,
                              FALSE)
                        EXCEPT !.keys = KeysOf(getSearchEnginesByUserId(userId))]
    /\ UNCHANGED <<searchVars, otherVars, genVars, storeVars>>

InitStore ==
    /\ SearchIdle
    /\ GenIdle
    /\ StoreInit
    /\ ServicesIdle
    /\ resp = NoResp

NextStore ==
    \/ \E valid \in BOOLEAN : PostConversation(valid)
    \/ \E id \in ConversationIds : DeleteConversation(id)
    \/ \E body \in MessageInputs : PostMessage(body)
    \/ \E id \in MessageIds : deleteMessage(id)
    \/ GetSearchEngines
    \/ \E id \in DOMAIN DefaultSearchEngines \cup {"e0"}, updates \in UpdateInputs :
          PutSearchEngine(id, updates)
    \/ \E userId \in {"demo-user", Absent} : DataExport(userId)

SpecStore == InitStore /\ [][NextStore]_vars

(***************************************************************************)
(* Claims about the store                                                  *)
(***************************************************************************)

\* C5: the conversationId of every stored message is null or the id of a
\* conversation the store holds.
C5_MessagesReferToConversations ==
    \A m \in DOMAIN messages :
        \/ messages[m].conversationId = Null
        \/ messages[m].conversationId \in DOMAIN conversations

\* C9: no response carries the stored API key of a search engine.
C9_NoApiKeyInResponse == resp.keys = {}

(***************************************************************************)
(* The routes of registerRoutes and the statuses they answer with          *)
(***************************************************************************)

\* The routes but the login, POST /api/projects, the generate and the
\* download route: whether requireAuth guards the route, the status of its
\* success, and the statuses its handler sets.
OtherRoutes ==
    { [name |-> "GET /api/auth/me", auth |-> TRUE, ok |-> 200, errors |-> {}],
      [name |-> "GET /api/conversations", auth |-> FALSE, ok |-> 200, errors |-> {500}],
      [name |-> "POST /api/conversations", auth |-> FALSE, ok |-> 200, errors |-> {500}],
      [name |-> "DELETE /api/conversations/:id", auth |-> FALSE, ok |-> 200,
       errors |-> {404, 500}],
      [name |-> "POST /api/messages", auth |-> FALSE, ok |-> 200, errors |-> {500}],
      [name |-> "GET /api/search-engines", auth |-> FALSE, ok |-> 200, errors |-> {500}],
      [name |-> "PUT /api/search-engines/:id", auth |-> FALSE, ok |-> 200,
       errors |-> {404, 500}],
      [name |-> "POST /api/data/export", auth |-> FALSE, ok |-> 200, errors |-> {400, 500}],
      [name |-> "GET /api/conversations/:id/messages", auth |-> FALSE, ok |-> 200,
       errors |-> {500}],
      [name |-> "POST /api/llm/chat", auth |-> FALSE, ok |-> 200, errors |-> {404, 500}],
      [name |-> "POST /api/llm/test-connection", auth |-> FALSE, ok |-> 200,
       errors |-> {400, 500}],
      [name |-> "GET /api/llm/models", auth |-> FALSE, ok |-> 200, errors |-> {400, 500}],
      [name |-> "GET /api/llm-configurations", auth |-> FALSE, ok |-> 200,
       errors |-> {400, 500}],
      [name |-> "POST /api/llm-configurations", auth |-> FALSE, ok |-> 200,
       errors |-> {500}],
      [name |-> "PUT /api/llm-configurations/:id", auth |-> FALSE, ok |-> 200,
       errors |-> {404, 500}],
      [name |-> "DELETE /api/llm-configurations/:id", auth |-> FALSE, ok |-> 200,
       errors |-> {404, 500}],
      [name |-> "POST /api/search", auth |-> FALSE, ok |-> 200, errors |-> {400, 500}],
      [name |-> "POST /api/search/fetch-content", auth |-> FALSE, ok |-> 200,
       errors |-> {400, 500}],
      [name |-> "GET /api/user-preferences", auth |-> FALSE, ok |-> 200,
       errors |-> {400, 500}],
      [name |-> "PUT /api/user-preferences", auth |-> FALSE, ok |-> 200,
       errors |-> {400, 404, 500}],
      [name |-> "POST /api/data/clear-cache", auth |-> FALSE, ok |-> 200, errors |-> {500}],
      [name |-> "POST /api/data/reset-settings", auth |-> FALSE, ok |-> 200,
       errors |-> {400, 500}],
      [name |-> "POST /api/files/upload", auth |-> FALSE, ok |-> 200, errors |-> {400, 500}],
      [name |-> "GET /api/files", auth |-> FALSE, ok |-> 200, errors |-> {400, 500}],
      [name |-> "GET /api/files/:id/content", auth |-> FALSE, ok |-> 200,
       errors |-> {404, 500}],
      [name |-> "DELETE /api/files/:id", auth |-> FALSE, ok |-> 200, errors |-> {404, 500}],
      [name |-> "GET /api/projects", auth |-> FALSE, ok |-> 200, errors |-> {400, 500}],
      [name |-> "PUT /api/projects/:id", auth |-> FALSE, ok |-> 200, errors |-> {404, 500}],
      [name |-> "DELETE /api/projects/:id", auth |-> FALSE, ok |-> 200,
       errors |-> {404, 500}],
      [name |-> "GET /api/github/repositories", auth |-> FALSE, ok |-> 200,
       errors |-> {500}],
      [name |-> "GET /api/github/repositories/:owner/:repo/contents", auth |-> FALSE,
       ok |-> 200, errors |-> {500}],
      [name |-> "GET /api/github/repositories/:owner/:repo/analyze", auth |-> FALSE,
       ok |-> 200, errors |-> {500}],
      [name |-> "POST /api/github/repositories", auth |-> FALSE, ok |-> 200,
       errors |-> {400, 500}],
      [name |-> "GET /api/project-templates", auth |-> FALSE, ok |-> 200, errors |-> {500}],
      [name |-> "GET /api/project-templates/:id", auth |-> FALSE, ok |-> 200,
       errors |-> {404, 500}],
      [name |-> "POST /api/project-templates", auth |-> FALSE, ok |-> 201,
       errors |-> {400, 500}],
      [name |-> "POST /api/export/github", auth |-> FALSE, ok |-> 200, errors |-> {500}],
      [name |-> "POST /api/export/conversation", auth |-> FALSE, ok |-> 200,
       errors |-> {400, 404, 500}] }

\* As RouteStatuses, were the handlers to answer a conflict with 409.
RouteStatuses_conflict(route, h) ==
    IF route.auth /\ ~requireAuth(h) THEN {401} ELSE {route.ok, 409} \cup route.errors

\* The statuses a route of OtherRoutes may answer a request with.
RouteStatuses(route, h) ==
    IF route.auth /\ ~requireAuth(h) THEN {401} ELSE {route.ok} \cup route.errors

\* A request to a route of OtherRoutes, whatever the store holds:
\* requireAuth where the route has it, then the handler, whose every
\* res.status(...) for an error sends a JSON body with an `error` field.
Request(route, h) ==
    \E status \in RouteStatuses(route, h) :
        /\ resp' = Response(route.name, h, "-", NoBody, status, status >= 400, FALSE)
        /\ UNCHANGED <<searchVars, otherVars, genVars, storeVars>>

\* Every route of registerRoutes, over the store and one stored template.
NextApi ==
    \/ DemoLogin
    \/ \E userId \in {"u1", "u2"}, valid \in BOOLEAN : CreateProject(userId, valid)
    \/ \E h \in HeaderInputs, body \in BodyInputs, tid \in TemplateIds \cup {"t0"} :
          GenerateRequest(h, body, tid)
    \/ GenFile
    \/ GenReadme
    \/ GenZip
    \/ GenRespond
    \/ \E h \in HeaderInputs, id \in IdInputs : Download(h, id)
    \/ \E route \in OtherRoutes, h \in HeaderInputs : Request(route, h)

SpecApi == InitAccess /\ [][NextApi]_vars

\* C4 as the documentation states it: every error response has status 400,
\* 404 or 500 and a JSON body with an `error` field.
C4_ErrorStatuses_AsStated ==
    resp.status >= 400 => (resp.status \in {400, 404, 500} /\ resp.error)

\* C4: every error response has status 400, 401, 403, 404 or 500 and a JSON
\* body with an `error` field.
C4_ErrorStatuses ==
    resp.status >= 400 => (resp.status \in {400, 401, 403, 404, 500} /\ resp.error)

\* requireAuth turned a request away, and the download route another.
C4_Witness ==
    /\ resp.status \in {401, 403}
    /\ resp.error

(***************************************************************************)
(* Claims about requireAuth                                                *)
(***************************************************************************)
AuthRoutes == {"GET /api/auth/me", "generate", "download"}

\* C11: a request to a route behind requireAuth whose x-session-id is absent
\* or no key of the session store is answered 401 and changes neither the
\* projects, the generated files nor the session store; every other answer
\* of these routes is to a stored session, and a generation runs for the
\* user stored under its session id.
C11_RequireAuthFrame ==
    [][ /\ (resp'.route \in AuthRoutes /\ resp'.h \notin DOMAIN sessionStore)
            => /\ resp'.status = 401
               /\ UNCHANGED <<projects, dirs, diskFiles, zips, sessionStore, gen>>
        /\ (resp'.route \in AuthRoutes /\ resp'.status # 401)
            => resp'.h \in DOMAIN sessionStore
        /\ gen'.active
            => /\ gen'.h \in DOMAIN sessionStore'
               /\ projects'[gen'.pid].userId = sessionStore'[gen'.h].id ]_vars

\* A generate request under a session id the store does not hold was turned
\* away while a session and a project exist.
C11_Witness ==
    /\ resp.route = "generate"
    /\ resp.h = "s0"
    /\ resp.status = 401
    /\ sessionStore # EmptyFn
    /\ projects # EmptyFn

(***************************************************************************)
(* FileService.analyzeFile (file-service.ts)                               *)
(***************************************************************************)
MaxBlocks == 3

\* The lines of a file come in blocks: one line with a function, with a
\* class, with both, a plain line, a comment, and runs of 10 function
\* lines, 10 class lines and 49 plain lines.
Blocks == {"fn", "cls", "fncls", "txt", "cmt", "fn10", "cls10", "txt49"}

\* content.split('\n').length of a block.
BlockLines(b) ==
    CASE b \in {"fn10", "cls10"} -> 10
      [] b = "txt49" -> 49
      [] OTHER -> 1

\* The lines of the block that match the function pattern.
BlockFunctions(b) ==
    CASE b = "fn10" -> 10
      [] b \in {"fn", "fncls"} -> 1
      [] OTHER -> 0

\* The lines of the block that match the class pattern.
BlockClasses(b) ==
    CASE b = "cls10" -> 10
      [] b \in {"cls", "fncls"} -> 1
      [] OTHER -> 0

\* The lines of the block that match the comment pattern.
BlockComments(b) == IF b = "cmt" THEN 1 ELSE 0

RECURSIVE SumSeq(_)
SumSeq(ns) == IF ns = <<>> THEN 0 ELSE Head(ns) + SumSeq(Tail(ns))

\* FileService.analyzeCode
analyzeCode(lines) ==
    [functions |-> SumSeq([i \in 1..Len(lines) |-> BlockFunctions(lines[i])]),
     classes |-> SumSeq([i \in 1..Len(lines) |-> BlockClasses(lines[i])]),
     comments |-> SumSeq([i \in 1..Len(lines) |-> BlockComments(lines[i])])]

\* As assessComplexity, with >= for >.
assessComplexity_atLeast(metrics, lineCount) ==
    LET totalComplexity == metrics.functions + metrics.classes + (lineCount \div 50)
    IN  IF totalComplexity >= 20 THEN "high"
        ELSE IF totalComplexity >= 10 THEN "medium"
        ELSE "low"

\* FileService.assessComplexity
assessComplexity(metrics, lineCount) ==
    LET totalComplexity == metrics.functions + metrics.classes + (lineCount \div 50)
    IN  IF totalComplexity > 20 THEN "high"
        ELSE IF totalComplexity > 10 THEN "medium"
        ELSE "low"

NoMetrics == [functions |-> 0, classes |-> 0, comments |-> 0]

\* FileService.analyzeFile, for the type determineFileType gave the file.
analyzeFile(f) ==
    LET textual == f.type \in {"text", "code"}
        lineCount == IF textual THEN SumSeq([i \in 1..Len(f.lines) |-> BlockLines(f.lines[i])]) ELSE 0
        codeMetrics == IF f.type = "code" THEN analyzeCode(f.lines) ELSE NoMetrics
    IN  [done |-> TRUE,
         type |-> f.type,
         lineCount |-> lineCount,
         codeMetrics |-> codeMetrics,
         complexity |-> IF f.type = "code" THEN assessComplexity(codeMetrics, lineCount)
                        ELSE "undefined"]

\* The uploads: a file has at least one line, the empty file the empty line.
UploadInputs ==
    [type : {"code", "text", "image"}, lines : SeqsUpTo(Blocks, MaxBlocks) \ {<<>>}]

InitFile ==
    /\ SearchIdle
    /\ GenIdle
    /\ StoreInit
    /\ PrefsIdle
    /\ LlmIdle
    /\ PgIdle
    /\ RestIdle
    /\ resp = NoResp
    /\ upload \in UploadInputs
    /\ analysis = NoAnalysis

\* FileService.processFile: the analysis of the uploaded file.
AnalyzeFile ==
    /\ ~analysis.done
    /\ analysis' = analyzeFile(upload)
    /\ UNCHANGED <<searchVars, genVars, restVars, storeVars, prefVars, llmConfigurations, pgVars,
                   upload, resp>>

NextFile == AnalyzeFile

SpecFile == InitFile /\ [][NextFile]_vars

\* The order of the three complexities.
ComplexityRank(c) == CASE c = "low" -> 0 [] c = "medium" -> 1 [] c = "high" -> 2

\* What a metric or the line count is raised by.
Raises == {0, 1, 9, 50}

\* C12: the complexity of a code file is 'high' when functions + classes +
\* floor(lineCount / 50) is above 20, 'medium' when it is above 10 and at
\* most 20, 'low' when it is at most 10, and raising any of the three
\* numbers never lowers it.
C12_ComplexityByScore ==
    (analysis.done /\ analysis.type = "code") =>
        LET m == analysis.codeMetrics
            n == analysis.lineCount
            score == m.functions + m.classes
                        + (CHOOSE q \in 0..n : 50 * q <= n /\ n < 50 * (q + 1))
        IN  /\ analysis.complexity = "high" <=> score > 20
            /\ analysis.complexity = "medium" <=> (10 < score /\ score <= 20)
            /\ analysis.complexity = "low" <=> score <= 10
            /\ \A df \in Raises, dc \in Raises, dn \in Raises :
                  ComplexityRank(assessComplexity(
                        [m EXCEPT !.functions = @ + df, !.classes = @ + dc], n + dn))
                      >= ComplexityRank(analysis.complexity)

\* A code file of 20 function and class lines and one more: score 21.
C12_Witness ==
    /\ analysis.done
    /\ analysis.type = "code"
    /\ analysis.codeMetrics.functions + analysis.codeMetrics.classes = 21
    /\ analysis.lineCount < 50
    /\ analysis.complexity = "high"

(***************************************************************************)
(* User preferences: MemStorage and the preference routes                  *)
(***************************************************************************)
PrefIds == {"r1", "r2", "r3"}
PrefUsers == {"u1", "u2"}

\* The default values of the nine preference fields.
DefaultValues ==
    [theme |-> "dark", compactMode |-> FALSE, animations |-> TRUE, fontSize |-> "medium",
     codeFont |-> "jetbrains", maxConcurrentRequests |-> 5, cacheDuration |-> 30,
     autoSaveConversations |-> TRUE, analyticsCollection |-> FALSE]

\* As ResetDefaults, without the theme.
ResetDefaults_noTheme ==
    [compactMode |-> FALSE, animations |-> TRUE, fontSize |-> "medium",
     codeFont |-> "jetbrains", maxConcurrentRequests |-> 5, cacheDuration |-> 30,
     autoSaveConversations |-> TRUE, analyticsCollection |-> FALSE]

\* defaultPrefs of POST /api/data/reset-settings.
ResetDefaults ==
    [theme |-> "dark", compactMode |-> FALSE, animations |-> TRUE, fontSize |-> "medium",
     codeFont |-> "jetbrains", maxConcurrentRequests |-> 5, cacheDuration |-> 30,
     autoSaveConversations |-> TRUE, analyticsCollection |-> FALSE]

\* { ...a, ...b }
Spread(a, b) ==
    [k \in DOMAIN a \cup DOMAIN b |-> IF k \in DOMAIN b THEN b[k] ELSE a[k]]

\* As findPreferences, comparing the id of the record with the user's.
findPreferences_byId(prefs, userId) == {id \in DOMAIN prefs : prefs[id].id = userId}

\* Array.from(this.userPreferences.values()).find(prefs => prefs.userId === userId)
findPreferences(prefs, userId) == {id \in DOMAIN prefs : prefs[id].userId = userId}

\* MemStorage.getUserPreferences: the map and the record returned.
MemStorage_getUserPreferences(prefs, userId) ==
    LET found == findPreferences(prefs, userId)
    IN  IF found # {}
        THEN LET id == CHOOSE x \in found : TRUE
             IN  [prefs |-> prefs, key |-> id, value |-> prefs[id]]
        ELSE LET id == CHOOSE x \in PrefIds \ DOMAIN prefs : TRUE
                 defaultPrefs == Spread([id |-> id, userId |-> userId], DefaultValues)
             IN  [prefs |-> Put(prefs, id, defaultPrefs), key |-> id,
                  value |-> defaultPrefs]

\* MemStorage.updateUserPreferences: the map and the record returned.
MemStorage_updateUserPreferences(prefs, userId, updates) ==
    LET got == MemStorage_getUserPreferences(prefs, userId)
        existing == got.value
        updated == Spread(Spread(existing, updates), [userId |-> existing.userId])
    IN  [prefs |-> Put(got.prefs, existing.id, updated), value |-> updated]

\* The updates a PUT /api/user-preferences body holds next to userId.
PrefUpdates ==
    { EmptyFn,
      [theme |-> "light"],
      [compactMode |-> TRUE, animations |-> FALSE],
      [maxConcurrentRequests |-> 10, cacheDuration |-> 60, fontSize |-> "large"] }

\* randomUUID() has an id to give.
CanCreatePreferences == PrefIds \ DOMAIN userPreferences # {}

\* GET /api/user-preferences
GetUserPreferences(userId) ==
    IF userId = Absent
    THEN /\ resp' = Response("GET /api/user-preferences", "-", "-", NoBody, 400, TRUE, FALSE)
         /\ UNCHANGED <<searchVars, genVars, restVars, storeVars, fileVars, prefVars,
                        llmConfigurations, pgVars>>
    ELSE /\ CanCreatePreferences
         /\ LET got == MemStorage_getUserPreferences(userPreferences, userId)
            IN  /\ userPreferences' = got.prefs
                /\ ret' = Returned("getUserPreferences", userId, {got.value})
         /\ resp' = Response("GET /api/user-preferences", "-", userId, NoBody, 200, FALSE,
                             FALSE)
         /\ UNCHANGED <<searchVars, genVars, restVars, storeVars, fileVars, llmConfigurations,
                        pgVars>>

\* PUT /api/user-preferences
PutUserPreferences(userId, updates) ==
    IF userId = Absent
    THEN /\ resp' = Response("PUT /api/user-preferences", "-", "-", NoBody, 400, TRUE, FALSE)
         /\ UNCHANGED <<searchVars, genVars, restVars, storeVars, fileVars, prefVars,
                        llmConfigurations, pgVars>>
    ELSE /\ CanCreatePreferences
         /\ LET put == MemStorage_updateUserPreferences(userPreferences, userId, updates)
            IN  /\ userPreferences' = put.prefs
                /\ ret' = Returned("updateUserPreferences", userId, {put.value})
         /\ resp' = Response("PUT /api/user-preferences", "-", userId, NoBody, 200, FALSE,
                             FALSE)
         /\ UNCHANGED <<searchVars, genVars, restVars, storeVars, fileVars, llmConfigurations,
                        pgVars>>

\* POST /api/data/reset-settings
ResetSettings(userId) ==
    IF userId = Absent
    THEN /\ resp' = Response("POST /api/data/reset-settings", "-", "-", NoBody, 400, TRUE,
                             FALSE)
         /\ UNCHANGED <<searchVars, genVars, restVars, storeVars, fileVars, prefVars,
                        llmConfigurations, pgVars>>
    ELSE /\ CanCreatePreferences
         /\ LET put == MemStorage_updateUserPreferences(userPreferences, userId,
                                                        ResetDefaults)
            IN  /\ userPreferences' = put.prefs
                /\ ret' = Returned("updateUserPreferences", userId, {put.value})
         /\ resp' = Response("POST /api/data/reset-settings", "-", userId, NoBody, 200,
                             FALSE, FALSE)
         /\ UNCHANGED <<searchVars, genVars, restVars, storeVars, fileVars, llmConfigurations,
                        pgVars>>

InitPrefs ==
    /\ SearchIdle
    /\ GenIdle
    /\ StoreInit
    /\ ServicesIdle
    /\ resp = NoResp

NextPrefs ==
    \/ \E userId \in PrefUsers \cup {Absent} : GetUserPreferences(userId)
    \/ \E userId \in PrefUsers \cup {Absent}, updates \in PrefUpdates :
          PutUserPreferences(userId, updates)
    \/ \E userId \in PrefUsers \cup {Absent} : ResetSettings(userId)

SpecPrefs == InitPrefs /\ [][NextPrefs]_vars

\* The record holds the default value in each of the nine fields.
HoldsDefaults(r) == \A k \in DOMAIN DefaultValues : r[k] = DefaultValues[k]

PrefsOf(userId) == {id \in DOMAIN userPreferences : userPreferences[id].userId = userId}

LlmIds == {"l1", "l2"}

\* The rows of a table that a set of keys selects.
Rows(table, keys) == {table[k] : k \in keys}

\* MemStorage.getLLMConfigurationsByUserId: the user's and the global ones.
MemStorage_getLLMConfigurationsByUserId(configs, userId) ==
    Rows(configs, {id \in DOMAIN configs : configs[id].userId \in {userId, Null}})

\* PostgreSQLStorage.getLLMConfigurationsByUserId: where user_id = userId.
PostgreSQLStorage_getLLMConfigurationsByUserId(db, userId) ==
    Rows(db.llmConfigurations,
         {id \in DOMAIN db.llmConfigurations : db.llmConfigurations[id].userId = userId})

\* MemStorage.getSearchEnginesByUserId
MemStorage_getSearchEnginesByUserId(userId) ==
    Rows(searchEngines, getSearchEnginesByUserId(userId))

\* PostgreSQLStorage.getSearchEnginesByUserId: where user_id = userId.
PostgreSQLStorage_getSearchEnginesByUserId(db, userId) ==
    Rows(db.searchEngines,
         {id \in DOMAIN db.searchEngines : db.searchEngines[id].userId = userId})

\* MemStorage.getEnabledSearchEngines
MemStorage_getEnabledSearchEngines(userId) ==
    Rows(searchEngines,
         {id \in DOMAIN searchEngines :
            searchEngines[id].enabled /\ searchEngines[id].userId \in {userId, Null}})

\* PostgreSQLStorage.getEnabledSearchEngines: user_id = userId and enabled.
PostgreSQLStorage_getEnabledSearchEngines(db, userId) ==
    Rows(db.searchEngines,
         {id \in DOMAIN db.searchEngines :
            db.searchEngines[id].userId = userId /\ db.searchEngines[id].enabled})

\* PostgreSQLStorage.getUserPreferences: the row of the user, or a row of
\* defaults inserted under the id given.
PostgreSQLStorage_getUserPreferences(db, userId, id) ==
    LET found == findPreferences(db.userPreferences, userId)
    IN  IF found # {}
        THEN [db |-> db, value |-> db.userPreferences[CHOOSE x \in found : TRUE]]
        ELSE LET defaultPrefs == Spread([id |-> id, userId |-> userId], DefaultValues)
             IN  [db |-> [db EXCEPT !.userPreferences = Put(@, id, defaultPrefs)],
                  value |-> defaultPrefs]

\* PostgreSQLStorage.updateUserPreferences: update ... where user_id = userId
\* returning; result[0], which is undefined when no row matched.
PostgreSQLStorage_updateUserPreferences(db, userId, updates) ==
    LET found == findPreferences(db.userPreferences, userId)
        table == [id \in DOMAIN db.userPreferences |->
                    IF id \in found THEN Spread(db.userPreferences[id], updates)
                    ELSE db.userPreferences[id]]
    IN  [db |-> [db EXCEPT !.userPreferences = table],
         value |-> Rows(table, found)]

\* A configuration a user adds: createLLMConfiguration in both.
UserLLMConfiguration(id, userId) ==
    [id |-> id, userId |-> userId, name |-> "Mine",
     endpoint |-> "http://localhost:11434", model |-> "llama2-7b-chat",
     temperature |-> 70, maxTokens |-> 2048, isDefault |-> TRUE]

BothGetLLMConfigurationsByUserId(userId) ==
    /\ ret' = Returned("getLLMConfigurationsByUserId", userId,
                       MemStorage_getLLMConfigurationsByUserId(llmConfigurations, userId))
    /\ pgRet' = Returned("getLLMConfigurationsByUserId", userId,
                         PostgreSQLStorage_getLLMConfigurationsByUserId(pg, userId))
    /\ UNCHANGED <<searchVars, genVars, restVars, storeVars, fileVars, userPreferences,
                   llmConfigurations, pg, resp>>

BothGetSearchEnginesByUserId(userId) ==
    /\ ret' = Returned("getSearchEnginesByUserId", userId,
                       MemStorage_getSearchEnginesByUserId(userId))
    /\ pgRet' = Returned("getSearchEnginesByUserId", userId,
                         PostgreSQLStorage_getSearchEnginesByUserId(pg, userId))
    /\ UNCHANGED <<searchVars, genVars, restVars, storeVars, fileVars, userPreferences,
                   llmConfigurations, pg, resp>>

BothGetEnabledSearchEngines(userId) ==
    /\ ret' = Returned("getEnabledSearchEngines", userId,
                       MemStorage_getEnabledSearchEngines(userId))
    /\ pgRet' = Returned("getEnabledSearchEngines", userId,
                         PostgreSQLStorage_getEnabledSearchEngines(pg, userId))
    /\ UNCHANGED <<searchVars, genVars, restVars, storeVars, fileVars, userPreferences,
                   llmConfigurations, pg, resp>>

BothGetUserPreferences(userId) ==
    /\ CanCreatePreferences
    /\ LET got == MemStorage_getUserPreferences(userPreferences, userId)
           row == PostgreSQLStorage_getUserPreferences(pg, userId, got.key)
       IN  /\ userPreferences' = got.prefs
           /\ ret' = Returned("getUserPreferences", userId, {got.value})
           /\ pg' = row.db
           /\ pgRet' = Returned("getUserPreferences", userId, {row.value})
    /\ UNCHANGED <<searchVars, genVars, restVars, storeVars, fileVars, llmConfigurations, resp>>

BothUpdateUserPreferences(userId, updates) ==
    /\ CanCreatePreferences
    /\ LET done == MemStorage_updateUserPreferences(userPreferences, userId, updates)
           row == PostgreSQLStorage_updateUserPreferences(pg, userId, updates)
       IN  /\ userPreferences' = done.prefs
           /\ ret' = Returned("updateUserPreferences", userId, {done.value})
           /\ pg' = row.db
           /\ pgRet' = Returned("updateUserPreferences", userId, row.value)
    /\ UNCHANGED <<searchVars, genVars, restVars, storeVars, fileVars, llmConfigurations, resp>>

BothUpdateSearchEngine(id, updates) ==
    /\ id \in DOMAIN searchEngines
    /\ id \in DOMAIN pg.searchEngines
    /\ searchEngines' = [searchEngines EXCEPT ![id] = Merge(@, updates)]
    /\ pg' = [pg EXCEPT !.searchEngines[id] = Merge(@, updates)]
    /\ ret' = Returned("updateSearchEngine", Null, {searchEngines'[id]})
    /\ pgRet' = Returned("updateSearchEngine", Null, {pg'.searchEngines[id]})
    /\ UNCHANGED <<searchVars, genVars, restVars, conversations, messages, fileVars,
                   userPreferences, llmConfigurations, resp>>

BothCreateLLMConfiguration(id, userId) ==
    /\ id \notin DOMAIN llmConfigurations
    /\ id \notin DOMAIN pg.llmConfigurations
    /\ llmConfigurations' = Put(llmConfigurations, id, UserLLMConfiguration(id, userId))
    /\ pg' = [pg EXCEPT !.llmConfigurations = Put(@, id, UserLLMConfiguration(id, userId))]
    /\ ret' = Returned("createLLMConfiguration", userId, {UserLLMConfiguration(id, userId)})
    /\ pgRet' = ret'
    /\ UNCHANGED <<searchVars, genVars, restVars, storeVars, fileVars, userPreferences, resp>>

\* The updates the two are driven with.
ThemeUpdates == {u \in PrefUpdates : DOMAIN u \subseteq {"theme"}}
EnabledUpdates == {u \in UpdateInputs : u.fields = {"enabled"} /\ u.apiKey = Null}

InitEquiv ==
    /\ SearchIdle
    /\ GenIdle
    /\ StoreInit
    /\ ServicesIdle
    /\ resp = NoResp

NextEquiv ==
    \/ \E userId \in PrefUsers : BothGetLLMConfigurationsByUserId(userId)
    \/ \E userId \in PrefUsers : BothGetSearchEnginesByUserId(userId)
    \/ \E userId \in PrefUsers : BothGetEnabledSearchEngines(userId)
    \/ \E userId \in PrefUsers : BothGetUserPreferences(userId)
    \/ \E userId \in PrefUsers, updates \in ThemeUpdates :
            BothUpdateUserPreferences(userId, updates)
    \/ \E id \in DOMAIN DefaultSearchEngines, updates \in EnabledUpdates :
            BothUpdateSearchEngine(id, updates)
    \/ \E id \in LlmIds, userId \in PrefUsers : BothCreateLLMConfiguration(id, userId)

SpecEquiv == InitEquiv /\ [][NextEquiv]_vars

\* The methods whose results the two implementations are to agree on.
ComparedMethods ==
    {"getLLMConfigurationsByUserId", "getSearchEnginesByUserId",
     "getEnabledSearchEngines", "updateUserPreferences"}

\* C15: after the same operations from the initial state, each of
\* getLLMConfigurationsByUserId, getSearchEnginesByUserId,
\* getEnabledSearchEngines and updateUserPreferences returns the same set of
\* records from MemStorage as from PostgreSQLStorage, or nothing from both.
C15_Interchangeable ==
    ret.op \in ComparedMethods => ret.value = pgRet.value

\* ---------------------------------------------------------------------------
\* POST /api/auth/demo-login, several requests at once (server/routes.ts).
\* With MemStorage no await of the handler waits for I/O: its continuations are
\* microtasks, which run before the callback of the next request, so the
\* handler is one step.  With PostgreSQLStorage every storage call is a query
\* and other requests run while it is awaited.
\* ---------------------------------------------------------------------------

LoginSessionIds == {"s1", "s2", "s3"}

DemoUsers == {u \in users : u.username = "demo-user"}

\* The handler over MemStorage, from the first line to res.json.
LoginMem(r) ==
    /\ backend = "mem"
    /\ logins[r].pc = "start"
    /\ \E sid \in LoginSessionIds \ DOMAIN sessionStore :
        LET user == IF DemoUsers # {} THEN CHOOSE u \in DemoUsers : TRUE ELSE DemoUser
        IN  /\ users' = users \cup {user}
            /\ sessionStore' = Put(sessionStore, sid, user)
            /\ logins' = [logins EXCEPT ![r] =
                            [pc |-> "done", user |-> {user}, sid |-> sid, status |-> 200]]
    /\ UNCHANGED <<searchVars, storeVars, fileVars, prefVars, llmConfigurations, pgVars,
                   projectTemplates, projects, dirs, diskFiles, zips, gen, backend, webFetch, chat, plans, llm, resp>>

\* let user = await storage.getUserByUsername('demo-user'), PostgreSQLStorage
LoginLookup(r) ==
    /\ backend = "pg"
    /\ logins[r].pc = "start"
    /\ logins' = [logins EXCEPT ![r].pc = "looked", ![r].user = DemoUsers]
    /\ UNCHANGED <<searchVars, genVars, storeVars, fileVars, prefVars, llmConfigurations,
                   pgVars, backend, webFetch, chat, plans, llm, resp>>

\* if (!user) user = await storage.createUser(...): the insert fails on the
\* unique username when a row of that name is there, and the catch block
\* answers 500.
LoginCreate(r) ==
    /\ logins[r].pc = "looked"
    /\ logins[r].user = {}
    /\ IF DemoUsers # {}
       THEN /\ logins' = [logins EXCEPT ![r].pc = "done", ![r].status = 500]
            /\ users' = users
       ELSE /\ users' = users \cup {DemoUser}
            /\ logins' = [logins EXCEPT ![r].user = {DemoUser}]
    /\ UNCHANGED <<searchVars, storeVars, fileVars, prefVars, llmConfigurations, pgVars,
                   sessionStore, projectTemplates, projects, dirs, diskFiles, zips, gen,
                   backend, webFetch, chat, plans, llm, resp>>

\* sessionStore.set(sessionId, user); res.json({ user, sessionId })
LoginRespond(r) ==
    /\ logins[r].pc = "looked"
    /\ logins[r].user # {}
    /\ \E sid \in LoginSessionIds \ DOMAIN sessionStore :
        /\ sessionStore' = Put(sessionStore, sid, CHOOSE u \in logins[r].user : TRUE)
        /\ logins' = [logins EXCEPT ![r].pc = "done", ![r].sid = sid, ![r].status = 200]
    /\ UNCHANGED <<searchVars, storeVars, fileVars, prefVars, llmConfigurations, pgVars,
                   users, projectTemplates, projects, dirs, diskFiles, zips, gen, backend,
                   webFetch, chat, plans, llm, resp>>

InitLogin ==
    /\ SearchIdle
    /\ GenIdle
    /\ StoreInit
    /\ FileIdle
    /\ PrefsIdle
    /\ LlmIdle
    /\ PgIdle
    /\ resp = NoResp
    /\ logins = [r \in LoginRequests |-> NoLogin]
    /\ backend \in {"mem", "pg"}
    /\ webFetch = NoFetch
    /\ chat = NoChat
    /\ plans = NoPlans
    /\ llm = NoLlm

NextLogin ==
    \E r \in LoginRequests :
        \/ LoginMem(r)
        \/ LoginLookup(r)
        \/ LoginCreate(r)
        \/ LoginRespond(r)

SpecLogin == InitLogin /\ [][NextLogin]_vars

\* C16: however concurrent demo-login requests interleave, each one answered
\* has succeeded with a session id of its own that maps to the demo user, and
\* once all are answered the user store holds exactly one user 'demo-user'.
C16_ConcurrentDemoLogin ==
    /\ \A r \in LoginRequests :
          logins[r].pc = "done" =>
            /\ logins[r].status = 200
            /\ logins[r].sid \in DOMAIN sessionStore
            /\ sessionStore[logins[r].sid].username = "demo-user"
            /\ \A q \in LoginRequests \ {r} :
                  logins[q].pc = "done" => logins[q].sid # logins[r].sid
    /\ (\A r \in LoginRequests : logins[r].pc = "done") => Cardinality(DemoUsers) = 1

\* ---------------------------------------------------------------------------
\* SearchService.fetchWebContent and POST /api/search/fetch-content.  A URL is
\* its protocol and its host as `new URL(url)` parses them: a name, or the four
\* octets of an IPv4 address, or an IPv6 address, whose hostname the parser
\* gives in brackets.
\* ---------------------------------------------------------------------------

Protocols == {"http:", "https:", "ftp:", "file:"}

FirstOctets == {8, 10, 127, 172, 192}
SecondOctets == {0, 15, 16, 17, 31, 32, 168}
LastOctets == {1, 2}

Hosts ==
    [kind : {"name"}, name : {"localhost", "example.com"}, octets : {<<>>}]
    \cup [kind : {"v6"}, name : {"::1", "2001:db8::1"}, octets : {<<>>}]
    \cup {[kind |-> "v4", name |-> "", octets |-> <<a, b, 0, d>>] :
            a \in FirstOctets, b \in SecondOctets, d \in LastOctets}

FetchUrls == [protocol : Protocols, host : Hosts]

\* parsedUrl.hostname
hostname(host) ==
    CASE host.kind = "v6" -> "[" \o host.name \o "]"
      [] host.kind = "name" -> host.name
      [] OTHER -> ""

\* hostname.startsWith(prefix), prefix a run of octets each followed by a dot
startsWith(host, prefix) ==
    /\ host.kind = "v4"
    /\ SubSeq(host.octets, 1, Len(prefix)) = prefix

\* The hosts the condition of fetchWebContent throws on.
blockedHost(host) ==
    \/ hostname(host) = "localhost"
    \/ host.kind = "v4" /\ host.octets = <<127, 0, 0, 1>>
    \/ startsWith(host, <<192, 168>>)
    \/ startsWith(host, <<10>>)
    \/ startsWith(host, <<172, 16>>)
    \/ hostname(host) = "::1"

\* Whether fetchWebContent reaches `await fetch(url, ...)`.
reachesFetch(url) ==
    /\ url.protocol \in {"http:", "https:"}
    /\ ~blockedHost(url.host)

\* POST /api/search/fetch-content with no url in the body.
FetchContentNoUrl ==
    /\ webFetch' = [url |-> NoFetchUrl, given |-> FALSE, called |-> FALSE, status |-> 400]
    /\ UNCHANGED <<searchVars, genVars, storeVars, fileVars, prefVars, llmConfigurations,
                   pgVars, loginVars, chat, plans, llm, resp>>

\* POST /api/search/fetch-content with a url; ok is whether the fetch, when one
\* is made, comes back with response.ok.
FetchContent(url, ok) ==
    /\ webFetch' = [url |-> url, given |-> TRUE, called |-> reachesFetch(url),
                    status |-> IF reachesFetch(url) /\ ok THEN 200 ELSE 500]
    /\ UNCHANGED <<searchVars, genVars, storeVars, fileVars, prefVars, llmConfigurations,
                   pgVars, loginVars, chat, plans, llm, resp>>

InitFetch ==
    /\ SearchIdle
    /\ GenIdle
    /\ StoreInit
    /\ ServicesIdle
    /\ resp = NoResp

NextFetch ==
    \/ FetchContentNoUrl
    \/ \E url \in FetchUrls, ok \in BOOLEAN : FetchContent(url, ok)

SpecFetch == InitFetch /\ [][NextFetch]_vars

\* The loopback addresses (127.0.0.0/8, ::1, localhost) and the private
\* networks (10.0.0.0/8, 172.16.0.0/12, 192.168.0.0/16).
PrivateOrLoopback(host) ==
    \/ host.kind = "name" /\ host.name = "localhost"
    \/ host.kind = "v6" /\ host.name = "::1"
    \/ /\ host.kind = "v4"
       /\ \/ host.octets[1] \in {10, 127}
          \/ host.octets[1] = 172 /\ host.octets[2] \in 16..31
          \/ host.octets[1] = 192 /\ host.octets[2] = 168

\* C17: a fetch-content request whose URL has a protocol other than http(s),
\* or a loopback or private-network host, is answered without a fetch made.
C17_NoPrivateFetch ==
    (webFetch.given /\ webFetch.called) =>
        /\ webFetch.url.protocol \in {"http:", "https:"}
        /\ ~PrivateOrLoopback(webFetch.url.host)

\* ---------------------------------------------------------------------------
\* Creating, listing, updating and deleting conversations, projects and LLM
\* configurations (server/routes.ts over MemStorage).  A list or update
\* response names the records it returns in resp.ids.
\* ---------------------------------------------------------------------------

ProjectIds == GenIds \cup OtherIds

\* GET /api/conversations
GetConversations ==
    /\ resp' = [Response("GET /api/conversations", "-", "-", NoBody, 200, FALSE, FALSE)
                  EXCEPT !.ids = {id \in DOMAIN conversations :
                                    conversations[id].userId = "demo-user"}]
    /\ UNCHANGED <<searchVars, otherVars, genVars, storeVars>>

\* GET /api/projects?userId=
GetProjects(userId) ==
    /\ resp' = [Response("GET /api/projects", "-", "-", NoBody, 200, FALSE, FALSE)
                  EXCEPT !.ids = {id \in DOMAIN projects : projects[id].userId = userId}]
    /\ UNCHANGED <<searchVars, otherVars, genVars, storeVars>>

\* PUT /api/projects/:id
PutProject(id) ==
    LET found == id \in DOMAIN projects
    IN  /\ resp' = [Response("PUT /api/projects/:id", "-", id, NoBody,
                             IF found THEN 200 ELSE 404, ~found, FALSE)
                      EXCEPT !.ids = IF found THEN {id} ELSE {}]
        /\ UNCHANGED <<searchVars, otherVars, genVars, storeVars>>

\* DELETE /api/projects/:id
DeleteProject(id) ==
    LET success == id \in DOMAIN projects
    IN  /\ projects' = Restrict(projects, DOMAIN projects \ {id})
        /\ resp' = Response("DELETE /api/projects/:id", "-", id, NoBody,
                            IF success THEN 200 ELSE 404, ~success, FALSE)
        /\ UNCHANGED <<searchVars, otherVars, storeVars, sessionStore, users,
                       projectTemplates, dirs, diskFiles, zips, gen>>

\* GET /api/llm-configurations?userId=
GetLLMConfigurations(userId) ==
    /\ resp' = [Response("GET /api/llm-configurations", "-", "-", NoBody, 200, FALSE, FALSE)
                  EXCEPT !.ids = {id \in DOMAIN llmConfigurations :
                                    llmConfigurations[id].userId \in {userId, Null}}]
    /\ UNCHANGED <<searchVars, otherVars, genVars, storeVars>>

\* POST /api/llm-configurations
PostLLMConfiguration(userId, valid) ==
    IF ~valid
    THEN /\ resp' = Response("POST /api/llm-configurations", "-", "-", NoBody, 500, TRUE, FALSE)
         /\ UNCHANGED <<searchVars, otherVars, genVars, storeVars>>
    ELSE \E id \in LlmIds \ DOMAIN llmConfigurations :
            /\ llmConfigurations' = Put(llmConfigurations, id, UserLLMConfiguration(id, userId))
            /\ resp' = Response("POST /api/llm-configurations", "-", id, NoBody, 200, FALSE, FALSE)
            /\ UNCHANGED <<searchVars, genVars, storeVars, fileVars, prefVars, pgVars, restVars>>

\* PUT /api/llm-configurations/:id
PutLLMConfiguration(id) ==
    LET found == id \in DOMAIN llmConfigurations
    IN  /\ resp' = [Response("PUT /api/llm-configurations/:id", "-", id, NoBody,
                             IF found THEN 200 ELSE 404, ~found, FALSE)
                      EXCEPT !.ids = IF found THEN {id} ELSE {}]
        /\ UNCHANGED <<searchVars, otherVars, genVars, storeVars>>

\* DELETE /api/llm-configurations/:id
DeleteLLMConfiguration(id) ==
    LET success == id \in DOMAIN llmConfigurations
    IN  /\ llmConfigurations' = Restrict(llmConfigurations, DOMAIN llmConfigurations \ {id})
        /\ resp' = Response("DELETE /api/llm-configurations/:id", "-", id, NoBody,
                            IF success THEN 200 ELSE 404, ~success, FALSE)
        /\ UNCHANGED <<searchVars, genVars, storeVars, fileVars, prefVars, pgVars, restVars>>

InitDelete ==
    /\ SearchIdle
    /\ GenIdle
    /\ StoreInit
    /\ ServicesIdle
    /\ resp = NoResp

NextDelete ==
    \/ \E valid \in BOOLEAN : PostConversation(valid)
    \/ GetConversations
    \/ \E id \in ConversationIds : DeleteConversation(id)
    \/ \E userId \in {"u1", "u2"}, valid \in BOOLEAN : CreateProject(userId, valid)
    \/ \E userId \in {"u1", "u2"} : GetProjects(userId)
    \/ \E id \in ProjectIds : PutProject(id)
    \/ \E id \in ProjectIds : DeleteProject(id)
    \/ \E userId \in {"u1", "u2"}, valid \in BOOLEAN : PostLLMConfiguration(userId, valid)
    \/ \E userId \in {"u1", "u2"} : GetLLMConfigurations(userId)
    \/ \E id \in LlmIds : PutLLMConfiguration(id)
    \/ \E id \in LlmIds : DeleteLLMConfiguration(id)

SpecDelete == InitDelete /\ [][NextDelete]_vars

\* What a step does to one store, whose routes are `routes`: a DELETE answered
\* 200 removes the record of the id and nothing else; one answered otherwise
\* is a 404 for an id the store does not hold and leaves the store alone; a
\* list or update returns only records held; only a create adds a record.
DeleteFrame(store, storeNext, routes) ==
    /\ resp'.route = routes.delete =>
          IF resp'.status = 200
          THEN /\ resp'.id \in DOMAIN store
               /\ storeNext = Restrict(store, DOMAIN store \ {resp'.id})
          ELSE /\ resp'.status = 404
               /\ resp'.id \notin DOMAIN store
               /\ storeNext = store
    /\ resp'.route \in {routes.list, routes.put} => resp'.ids \subseteq DOMAIN storeNext
    /\ DOMAIN storeNext \ DOMAIN store # {} => resp'.route = routes.post

ConversationRoutes ==
    [delete |-> "DELETE /api/conversations/:id", list |-> "GET /api/conversations",
     put |-> "-", post |-> "POST /api/conversations"]

ProjectRoutes ==
    [delete |-> "DELETE /api/projects/:id", list |-> "GET /api/projects",
     put |-> "PUT /api/projects/:id", post |-> "create-project"]

LLMConfigurationRoutes ==
    [delete |-> "DELETE /api/llm-configurations/:id", list |-> "GET /api/llm-configurations",
     put |-> "PUT /api/llm-configurations/:id", post |-> "POST /api/llm-configurations"]

MaxTime == 2

ChatUsers == {"demo-user", "u1"}

\* The ids of the records of a Map.
IdsOf(map) == {map[i].id : i \in 1..Len(map)}

\* The record of a Map under an id it holds.
RecordOf(map, id) == map[CHOOSE i \in 1..Len(map) : map[i].id = id]

\* Array.prototype.sort with the comparator a.key - b.key, which is stable:
\* rows of equal key keep the order they came in.
RECURSIVE sort(_)
sort(rows) ==
    IF rows = <<>> THEN <<>>
    ELSE LET sorted == sort(SubSeq(rows, 1, Len(rows) - 1))
             x == rows[Len(rows)]
             n == Cardinality({i \in 1..Len(sorted) : sorted[i].key <= x.key})
         IN  SubSeq(sorted, 1, n) \o <<x>> \o SubSeq(sorted, n + 1, Len(sorted))

\* The values of sorted rows.
Values(rows) == [i \in 1..Len(rows) |-> rows[i].val]

\* MemStorage.getConversationsByUserId: b.updatedAt - a.updatedAt
getConversationsByUserId(map, userId) ==
    LET OfUser(conv) == conv.userId = userId
        mine == SelectSeq(map, OfUser)
    IN  Values(sort([i \in 1..Len(mine) |-> [key |-> 0 - mine[i].updatedAt, val |-> mine[i]]]))

\* MemStorage.getMessagesByConversationId: a.createdAt - b.createdAt
getMessagesByConversationId(map, conversationId) ==
    LET OfConversation(msg) == msg.conversationId = conversationId
        mine == SelectSeq(map, OfConversation)
    IN  Values(sort([i \in 1..Len(mine) |-> [key |-> mine[i].createdAt, val |-> mine[i]]]))

\* As updateConversation, with the record left as it was.
updateConversation_stale(map, id, now) == map

\* MemStorage.updateConversation(id, { updatedAt: new Date() }): Map.set on a
\* key the map holds keeps the place of the key.
updateConversation(map, id, now) ==
    [i \in 1..Len(map) |->
        IF map[i].id = id THEN [map[i] EXCEPT !.updatedAt = now] ELSE map[i]]

\* new Date() gives a later time from here on.
Tick ==
    /\ chat.now < MaxTime
    /\ chat' = [chat EXCEPT !.now = @ + 1]
    /\ UNCHANGED <<searchVars, genVars, storeVars, fileVars, prefVars, llmConfigurations,
                   pgVars, loginVars, webFetch, plans, llm, resp>>

\* POST /api/conversations, MemStorage.createConversation
ChatPostConversation(userId) ==
    \E id \in ConversationIds \ IdsOf(chat.conversations) :
        /\ chat' = [chat EXCEPT !.conversations =
                        Append(@, [id |-> id, userId |-> userId, createdAt |-> chat.now,
                                   updatedAt |-> chat.now])]
        /\ resp' = Response("POST /api/conversations", "-", id, NoBody, 200, FALSE, FALSE)
        /\ UNCHANGED <<searchVars, genVars, storeVars, fileVars, prefVars, llmConfigurations,
                       pgVars, loginVars, webFetch, plans, llm>>

\* POST /api/messages with a body the schema accepts: MemStorage.createMessage,
\* then updateConversation.
ChatPostMessage(conversationId) ==
    \E id \in MessageIds \ IdsOf(chat.messages) :
        /\ chat' = [chat EXCEPT
                        !.messages = Append(@, [id |-> id, conversationId |-> conversationId,
                                                createdAt |-> chat.now]),
                        !.conversations = updateConversation(@, conversationId, chat.now)]
        /\ resp' = Response("POST /api/messages", "-", conversationId, NoBody, 200, FALSE, FALSE)
        /\ UNCHANGED <<searchVars, genVars, storeVars, fileVars, prefVars, llmConfigurations,
                       pgVars, loginVars, webFetch, plans, llm>>

InitChat ==
    /\ SearchIdle
    /\ GenIdle
    /\ StoreInit
    /\ ServicesIdle
    /\ resp = NoResp

NextChat ==
    \/ Tick
    \/ \E userId \in ChatUsers : ChatPostConversation(userId)
    \/ \E conversationId \in ConversationIds : ChatPostMessage(conversationId)

SpecChat == InitChat /\ [][NextChat]_vars

\* The step stores a message for conversation c, which the store holds.
PostedTo(c) ==
    /\ c \in IdsOf(chat.conversations)
    /\ Len(chat'.messages) = Len(chat.messages) + 1
    /\ chat'.messages[Len(chat'.messages)].conversationId = c

\* After the step c.updatedAt is no earlier than any timestamp c had: its
\* createdAt, its updatedAt before, and the createdAt of its messages.
UpdatedAtLatest(c) ==
    LET before == RecordOf(chat.conversations, c)
        after == RecordOf(chat'.conversations, c)
    IN  /\ after.updatedAt >= before.updatedAt
        /\ after.updatedAt >= before.createdAt
        /\ \A i \in 1..Len(chat'.messages) :
              chat'.messages[i].conversationId = c
                => after.updatedAt >= chat'.messages[i].createdAt

\* The messages of c come back in the order they were created in.
MessagesInCreationOrder(c) ==
    LET OfConversation(msg) == msg.conversationId = c
    IN  getMessagesByConversationId(chat'.messages, c)
            = SelectSeq(chat'.messages, OfConversation)

\* C19 as stated: a message posted to a stored conversation c leaves
\* c.updatedAt no earlier than any earlier timestamp of c, c first in the
\* conversations of its user, and the messages of c in creation order.
C19_MostRecentFirst_AsStated ==
    [][ \A c \in ConversationIds :
          PostedTo(c) =>
            /\ UpdatedAtLatest(c)
            /\ getConversationsByUserId(chat'.conversations,
                    RecordOf(chat.conversations, c).userId)[1].id = c
            /\ MessagesInCreationOrder(c) ]_vars

\* C19: a message posted to a stored conversation c leaves c.updatedAt no
\* earlier than any earlier timestamp of c and than the updatedAt of any
\* conversation, so in the conversations of its user only conversations of
\* that same updatedAt come before c; the messages of c come back in
\* creation order.
C19_MostRecentFirst ==
    [][ \A c \in ConversationIds :
          PostedTo(c) =>
            LET list == getConversationsByUserId(chat'.conversations,
                            RecordOf(chat.conversations, c).userId)
                at == RecordOf(chat'.conversations, c).updatedAt
            IN  /\ UpdatedAtLatest(c)
                /\ \A i \in 1..Len(list) : list[i].updatedAt <= at
                /\ \E i \in 1..Len(list) :
                      /\ list[i].id = c
                      /\ \A j \in 1..(i - 1) : list[j].updatedAt = at
                /\ MessagesInCreationOrder(c) ]_vars

\* Two messages in one conversation, posted at different times, with another
\* conversation of the same user in the store.
C19_Witness ==
    /\ resp.route = "POST /api/messages"
    /\ Len(chat.conversations) = 2
    /\ chat.conversations[1].userId = chat.conversations[2].userId
    /\ Len(chat.messages) = 2
    /\ chat.messages[1].conversationId = chat.messages[2].conversationId
    /\ chat.messages[1].conversationId = chat.conversations[2].id
    /\ chat.messages[1].createdAt < chat.messages[2].createdAt

\* ---------------------------------------------------------------------------
\* The project store after a generation that failed (project-generator.ts).
\* ---------------------------------------------------------------------------

\* The projects createProject stored for a generation that got to its archive.
Generated == {pid \in DOMAIN projects \cap GenIds : pid \in zips}

\* C20: when the generate route has answered with an error, the project store
\* holds no record of a generation that failed: every project a generation
\* created has its files and its archive.
C20_NoProjectOfFailedGeneration ==
    (resp.route = "generate" /\ resp.error) => DOMAIN projects \cap GenIds = Generated

\* ---------------------------------------------------------------------------
\* The order of the steps of a generation, and the download that follows
\* (project-generator.ts, routes.ts).
\* ---------------------------------------------------------------------------

\* Every file of the template of the generation and README.md are on disk
\* under the directory of project pid.
FilesWritten(pid, tid) ==
    LET projectPath == baseOutputPath \o <<pid>>
        files == projectTemplates[tid].files
    IN  /\ \A i \in 1..Len(files) :
              sanitizeFilePath(files[i].path, projectPath).target \in DOMAIN diskFiles
        /\ (projectPath \o <<"README.md">>) \in DOMAIN diskFiles

\* A generation in flight has its project record; it has no archive before
\* every file is written, and answers only with the archive closed.
GenerationOrdered ==
    /\ gen.active => gen.pid \in DOMAIN projects
    /\ (gen.active /\ gen.phase = "files") => gen.pid \notin zips
    /\ (gen.active /\ gen.phase = "zip") =>
          /\ gen.pid \notin zips
          /\ FilesWritten(gen.pid, gen.tid)
    /\ (gen.active /\ gen.phase = "respond") =>
          /\ gen.pid \in zips
          /\ FilesWritten(gen.pid, gen.tid)

\* The generate route has answered 200 for project pid.
GenerateAnswered(pid) ==
    /\ resp.route = "generate"
    /\ resp.status = 200
    /\ resp.id = pid

\* The download route has answered the owner of project pid with the 404 of
\* the missing archive.
DownloadNotFound(pid) ==
    /\ resp.route = "download"
    /\ resp.id = pid
    /\ resp.status = 404
    /\ ValidSession(resp.h)
    /\ ProjectExists(pid)
    /\ OwnedBySession(resp.h, pid)

\* C21: a generation stores the project record, then writes every template
\* file and README.md, then the archive, and answers 200 only with the
\* archive closed; from that answer on no download by the owner of the
\* project is answered 404 'Project download not found'.
C21_DownloadAfterGenerate ==
    /\ []GenerationOrdered
    /\ \A pid \in GenIds :
          [](GenerateAnswered(pid) =>
                /\ pid \in zips
                /\ [](~DownloadNotFound(pid)))

C21_Witness ==
    /\ resp.route = "download"
    /\ resp.sent
    /\ resp.id \in GenIds
    /\ FilesWritten(resp.id, "t1")
    /\ Len(projectTemplates["t1"].files) > 0

\* ---------------------------------------------------------------------------
\* Project plan versions (server/storage.ts).  createProjectPlanVersion reads
\* the stored versions, awaits, and then stores; MemStorage and
\* PostgreSQLStorage take the same two steps, and other calls run in between.
\* ---------------------------------------------------------------------------

PlanIds == {"v1", "v2", "v3"}
PlanProjects == {"p1", "p2"}

\* The greatest of a non-empty set of numbers.
MathMax(ns) == CHOOSE n \in ns : \A m \in ns : m <= n

\* getProjectPlanVersionsByProjectId, as the set of the records' keys
getProjectPlanVersionsByProjectId(stored, projectId) ==
    {id \in DOMAIN stored : stored[id].projectId = projectId}

\* getLatestProjectPlanVersion: the first of the versions sorted by version
\* descending, as the set of that record, empty for undefined.
getLatestProjectPlanVersion(stored, projectId) ==
    LET ids == getProjectPlanVersionsByProjectId(stored, projectId)
    IN  IF ids = {} THEN {}
        ELSE {stored[CHOOSE id \in ids : \A other \in ids :
                        stored[other].version <= stored[id].version]}

\* The version number createProjectPlanVersion picks when given none.
nextVersion(stored, projectId) ==
    LET ids == getProjectPlanVersionsByProjectId(stored, projectId)
    IN  IF ids # {} THEN MathMax({stored[id].version : id \in ids}) + 1 ELSE 1

\* createProjectPlanVersion with no version given, up to the await of the
\* versions read.
PlanCreateRead(k, projectId) ==
    /\ plans.calls[k].pc = "idle"
    /\ plans' = [plans EXCEPT !.calls[k] =
                    [pc |-> "read", projectId |-> projectId,
                     version |-> nextVersion(plans.stored, projectId)]]
    /\ UNCHANGED <<searchVars, genVars, storeVars, fileVars, prefVars, llmConfigurations,
                   pgVars, loginVars, webFetch, chat, llm, resp>>

\* createProjectPlanVersion, from the await on: the record is stored.
PlanCreateStore(k) ==
    /\ plans.calls[k].pc = "read"
    /\ \E id \in PlanIds \ DOMAIN plans.stored :
        plans' = [plans EXCEPT
                    !.stored = Put(@, id, [projectId |-> plans.calls[k].projectId,
                                           version |-> plans.calls[k].version]),
                    !.calls[k].pc = "done"]
    /\ UNCHANGED <<searchVars, genVars, storeVars, fileVars, prefVars, llmConfigurations,
                   pgVars, loginVars, webFetch, chat, llm, resp>>

\* deleteProjectPlanVersion
PlanDelete(id) ==
    /\ id \in DOMAIN plans.stored
    /\ plans' = [plans EXCEPT !.stored = Restrict(@, DOMAIN @ \ {id})]
    /\ UNCHANGED <<searchVars, genVars, storeVars, fileVars, prefVars, llmConfigurations,
                   pgVars, loginVars, webFetch, chat, llm, resp>>

InitPlan ==
    /\ SearchIdle
    /\ GenIdle
    /\ StoreInit
    /\ ServicesIdle
    /\ resp = NoResp

NextPlan ==
    \/ \E k \in PlanCalls, projectId \in PlanProjects : PlanCreateRead(k, projectId)
    \/ \E k \in PlanCalls : PlanCreateStore(k)
    \/ \E id \in PlanIds : PlanDelete(id)

SpecPlan == InitPlan /\ [][NextPlan]_vars

\* C22: however createProjectPlanVersion calls without a version number and
\* deleteProjectPlanVersion calls interleave, no two stored versions of one
\* project have the same number, and getLatestProjectPlanVersion returns the
\* stored version of the project with the greatest number.
C22_VersionsDistinct ==
    /\ \A i, j \in DOMAIN plans.stored :
          (i # j /\ plans.stored[i].projectId = plans.stored[j].projectId)
              => plans.stored[i].version # plans.stored[j].version
    /\ \A projectId \in PlanProjects :
          LET ids == getProjectPlanVersionsByProjectId(plans.stored, projectId)
          IN  ids # {} =>
                \E latest \in getLatestProjectPlanVersion(plans.stored, projectId) :
                    latest.version = MathMax({plans.stored[id].version : id \in ids})

\* ---------------------------------------------------------------------------
\* LLMService.sendMessage (server/services/project-generator.ts).  A
\* temperature is an integer of the 0..100 range and is sent divided by 100:
\* the number sent is the pair of the dividend and the divisor.
\* ---------------------------------------------------------------------------

\* A number that may be missing (null or undefined) is the set of the number,
\* empty when it is missing.
Given(n) == {n}
Missed == {}

\* config.temperature and config.maxTokens: integer columns that may be null.
LlmConfigs ==
    [temperature : {Missed, Given(0), Given(50), Given(100)},
     maxTokens : {Missed, Given(0), Given(1024)}]

\* request.temperature and request.maxTokens: optional numbers.
LlmRequests ==
    [temperature : {Missed, Given(0), Given(30), Given(100)},
     maxTokens : {Missed, Given(0), Given(512)}]

\* ToBoolean of a number, null or undefined.
Truthy(x) == x # Missed /\ x # Given(0)

\* a || b || c, c a number
OrElse(a, b, c) ==
    CHOOSE n \in (IF Truthy(a) THEN a ELSE IF Truthy(b) THEN b ELSE Given(c)) : TRUE

\* The temperature and max_tokens of the body sendMessage posts.
chatBody(config, request) ==
    [temperature |->
        [dividend |-> OrElse(request.temperature, config.temperature, 70),
         divisor |-> 100],
     max_tokens |-> OrElse(request.maxTokens, config.maxTokens, 2048)]

\* LLMService.sendMessage(config, request), up to the fetch
SendMessage(config, request) ==
    /\ llm' = [called |-> TRUE, config |-> config, request |-> request,
               body |-> chatBody(config, request)]
    /\ UNCHANGED <<searchVars, genVars, storeVars, fileVars, prefVars, llmConfigurations,
                   pgVars, loginVars, webFetch, chat, plans, resp>>

InitLlm ==
    /\ SearchIdle
    /\ GenIdle
    /\ StoreInit
    /\ ServicesIdle
    /\ resp = NoResp

NextLlm == \E config \in LlmConfigs, request \in LlmRequests : SendMessage(config, request)

SpecLlm == InitLlm /\ [][NextLlm]_vars

\* C23: the body sent carries the request's temperature t as t / 100 whenever
\* the request gives one in 0..100, and the request's maxTokens whenever it
\* gives one; the configuration's values, then 70 and 2048, appear only when
\* the request gives none.
C23_RequestValuesWin ==
    llm.called =>
        /\ \A t \in llm.request.temperature :
              llm.body.temperature = [dividend |-> t, divisor |-> 100]
        /\ \A m \in llm.request.maxTokens : llm.body.max_tokens = m

\* ---------------------------------------------------------------------------
\* MemStorage.createUserPreferences (server/storage.ts).  A field of the
\* caller's record is Given(value), or Missed when the caller left it out.
\* ---------------------------------------------------------------------------

InsertUserPreferences ==
    [userId : {"u1"},
     theme : {Missed, Given("light")},
     compactMode : {Missed, Given(TRUE)},
     animations : {Missed, Given(TRUE), Given(FALSE)},
     fontSize : {Missed},
     codeFont : {Missed},
     maxConcurrentRequests : {Missed, Given(10)},
     cacheDuration : {Missed},
     autoSaveConversations : {Missed, Given(TRUE), Given(FALSE)},
     analyticsCollection : {Missed}]

\* x || fallback, where falsy is the falsy value of the type of x
Or(x, falsy, fallback) ==
    IF x = Missed \/ x = Given(falsy) THEN fallback ELSE CHOOSE v \in x : TRUE

\* MemStorage.createUserPreferences: the record it stores under id.
createUserPreferences(insertPrefs, id) ==
    [id |-> id,
     userId |-> insertPrefs.userId,
     theme |-> Or(insertPrefs.theme, "", "dark"),
     compactMode |-> Or(insertPrefs.compactMode, FALSE, FALSE),
     animations |-> Or(insertPrefs.animations, FALSE, TRUE),
     fontSize |-> Or(insertPrefs.fontSize, "", "medium"),
     codeFont |-> Or(insertPrefs.codeFont, "", "jetbrains"),
     maxConcurrentRequests |-> Or(insertPrefs.maxConcurrentRequests, 0, 5),
     cacheDuration |-> Or(insertPrefs.cacheDuration, 0, 30),
     autoSaveConversations |-> Or(insertPrefs.autoSaveConversations, FALSE, TRUE),
     analyticsCollection |-> Or(insertPrefs.analyticsCollection, FALSE, FALSE)]

\* storage.createUserPreferences(insertPrefs)
CreateUserPreferences(insertPrefs) ==
    /\ CanCreatePreferences
    /\ LET id == CHOOSE x \in PrefIds \ DOMAIN userPreferences : TRUE
           preferences == createUserPreferences(insertPrefs, id)
       IN  /\ userPreferences' = Put(userPreferences, id, preferences)
           /\ ret' = [op |-> "createUserPreferences", userId |-> insertPrefs.userId,
                      value |-> {preferences}, given |-> insertPrefs]
    /\ UNCHANGED <<searchVars, genVars, restVars, storeVars, fileVars, llmConfigurations,
                   pgVars, resp>>

InitCreate ==
    /\ SearchIdle
    /\ GenIdle
    /\ StoreInit
    /\ ServicesIdle
    /\ resp = NoResp

NextCreate == \E insertPrefs \in InsertUserPreferences : CreateUserPreferences(insertPrefs)

SpecCreate == InitCreate /\ [][NextCreate]_vars

\* C24: the record createUserPreferences returns holds every field the
\* caller gave as given, false included, and the default in every field the
\* caller left out.
C24_GivenFieldsKept ==
    ret.op = "createUserPreferences" =>
        \A preferences \in ret.value :
            \A field \in DOMAIN DefaultValues :
                IF ret.given[field] = Missed
                THEN preferences[field] = DefaultValues[field]
                ELSE preferences[field] \in ret.given[field]
====
